---- MODULE Spec2Model ----
(***************************************************************************)
(* Model of the snapshot differ (compare_snapshots.py) and of the history  *)
(* reconstructor (animal_history.py) of adopets-monitoring.                *)
(*                                                                         *)
(* Python values are tagged tuples, so that None, "", [] and False stay    *)
(* distinct values and `==` of Python is `=` of the model.  A string is a  *)
(* sequence of one-character strings.                                      *)
(***************************************************************************)
EXTENDS Integers, Sequences, FiniteSets, TLC

\* ------------------------------------------------------------------------
\* Python values
\* ------------------------------------------------------------------------
PyNone == <<"none">>
PyStr(s) == <<"str", s>>
PyBool(b) == <<"bool", b>>
PyList(l) == <<"list", l>>

IsNone(v) == v[1] = "none"
IsStr(v) == v[1] = "str"
IsList(v) == v[1] = "list"

\* bool(x) / `if x` / `not x` of Python, for the value kinds of a record
Truthy(v) ==
  CASE v[1] = "none" -> FALSE
    [] v[1] = "bool" -> v[2]
    [] v[1] = "str" -> v[2] # <<>>
    [] v[1] = "list" -> v[2] # <<>>

\* dict.get(k): the value of key k, None when the key is missing
Get(rec, k) == IF k \in DOMAIN rec THEN rec[k] ELSE PyNone

\* dict.get(k, default)
GetOr(rec, k, default) == IF k \in DOMAIN rec THEN rec[k] ELSE default

\* ------------------------------------------------------------------------
\* Strings
\* ------------------------------------------------------------------------
\* str.isspace of one character
IsSpace(c) == c \in {" ", "\n", "\t"}

\* code points, the order sorted() uses on strings
CharCode(c) ==
  CASE c = "\t" -> 9
    [] c = "\n" -> 10
    [] c = " " -> 32
    [] c = "1" -> 49
    [] c = "2" -> 50
    [] c = "3" -> 51
    [] c = "4" -> 52
    [] c = "5" -> 53
    [] c = "6" -> 54
    [] c = "7" -> 55
    [] c = "8" -> 56
    [] c = "9" -> 57
    [] c = "/" -> 47
    [] c = "A" -> 65
    [] c = "B" -> 66
    [] c = "M" -> 77
    [] c = "R" -> 82
    [] c = "T" -> 84
    [] c = "a" -> 97
    [] c = "b" -> 98
    [] c = "c" -> 99
    [] c = "f" -> 102
    [] c = "m" -> 109
    [] c = "r" -> 114
    [] c = "s" -> 115
    [] OTHER -> 120

\* str.lower of the letters met in identities and names
LowerChar(c) ==
  CASE c = "A" -> "a"
    [] c = "B" -> "b"
    [] c = "M" -> "m"
    [] c = "R" -> "r"
    [] c = "T" -> "t"
    [] OTHER -> c

\* str.split() without arguments: the maximal runs of non-whitespace,
\* each from a character that follows no other of its run to the first
\* at or behind it that is followed by none
Split(s) ==
  LET starts == {i \in 1..Len(s) : ~IsSpace(s[i]) /\ (i = 1 \/ IsSpace(s[i - 1]))}
      ends == {j \in 1..Len(s) : ~IsSpace(s[j]) /\ (j = Len(s) \/ IsSpace(s[j + 1]))}
      start(k) == CHOOSE i \in starts : Cardinality({m \in starts : m < i}) = k - 1
      end(i) == CHOOSE j \in ends : j >= i /\ \A e \in ends : e >= i => j <= e
  IN [k \in 1..Cardinality(starts) |-> SubSeq(s, start(k), end(start(k)))]

RECURSIVE Join(_, _)
\* sep.join(words)
Join(sep, words) ==
  IF words = <<>> THEN <<>>
  ELSE IF Len(words) = 1 THEN words[1]
  ELSE words[1] \o sep \o Join(sep, Tail(words))

RECURSIVE LstripFrom(_)
LstripFrom(s) == IF s # <<>> /\ IsSpace(s[1]) THEN LstripFrom(Tail(s)) ELSE s

RECURSIVE RstripFrom(_)
RstripFrom(s) ==
  IF s # <<>> /\ IsSpace(s[Len(s)]) THEN RstripFrom(SubSeq(s, 1, Len(s) - 1)) ELSE s

\* str.strip()
Strip(s) == RstripFrom(LstripFrom(s))

RECURSIVE SeqLess(_, _)
\* s < t of two Python strings (lexicographic by code point)
SeqLess(s, t) ==
  IF t = <<>> THEN FALSE
  ELSE IF s = <<>> THEN TRUE
  ELSE IF s[1] = t[1] THEN SeqLess(Tail(s), Tail(t))
  ELSE CharCode(s[1]) < CharCode(t[1])

PyLess(a, b) == SeqLess(a[2], b[2])

RECURSIVE InsertSorted(_, _)
\* x put behind every element of the sorted list q that is not above it
InsertSorted(x, q) ==
  IF q = <<>> THEN <<x>>
  ELSE IF PyLess(x, q[1]) THEN <<x>> \o q
  ELSE <<q[1]>> \o InsertSorted(x, Tail(q))

\* the list left as it is
SortListAsIs(q) == q

RECURSIVE SortList(_)
\* sorted(q) of a list of strings
SortList(q) ==
  IF q = <<>> THEN <<>>
  ELSE InsertSorted(q[Len(q)], SortList(SubSeq(q, 1, Len(q) - 1)))

\* The iteration order of a set of strings follows the hashes of the run
\* (PYTHONHASHSEED): one seed per run, each seed an order of its own.
HashSeeds == {0, 1}

HashLess(seed, a, b) == IF seed = 0 THEN PyLess(a, b) ELSE PyLess(b, a)

RECURSIVE SetIter(_, _)
\* list(S) of a set S in a run of hash seed `seed`
SetIter(S, seed) ==
  IF S = {} THEN <<>>
  ELSE LET m == CHOOSE x \in S : \A y \in S : x = y \/ HashLess(seed, x, y)
       IN <<m>> \o SetIter(S \ {m}, seed)

\* sorted(S) of a set of strings
Sorted(S, seed) == SortList(SetIter(S, seed))

Range(q) == {q[i] : i \in 1..Len(q)}


SeqsUpTo(S, n) == UNION {[1..k -> S] : k \in 0..n}

\* ------------------------------------------------------------------------
\* compare_snapshots.py
\* ------------------------------------------------------------------------
\* json.load of a snapshot file yields a list; an object of the array is a
\* dict value <<"dict", r>>, r a function from its keys to their values
PyDict(r) == <<"dict", r>>
IsDict(v) == v[1] = "dict"

\* rec.get("animal_id") raises AttributeError on an element that is no dict
LoadSnapshotRaises(records) == \E i \in 1..Len(records) : ~IsDict(records[i])

\* the indexes load_snapshot keeps: `if not pet_id: continue`
KeptIdx(records) ==
  {i \in 1..Len(records) : Truthy(Get(records[i][2], "animal_id"))}

\* load_snapshot: dict id -> record, a later record overwriting an earlier one
load_snapshot(records) ==
  LET ids == {Get(records[i][2], "animal_id") : i \in KeptIdx(records)}
      last(id) == CHOOSE i \in KeptIdx(records) :
                    /\ Get(records[i][2], "animal_id") = id
                    /\ \A j \in KeptIdx(records) :
                         Get(records[j][2], "animal_id") = id => j <= i
  IN [id \in ids |-> records[last(id)][2]]

\* the text trimmed only, inner runs of whitespace kept
normalize_html_trim_only(text) == IF IsNone(text) THEN <<>> ELSE Strip(text[2])

\* normalize_html: None -> "", else " ".join(text.split())
normalize_html(text) == IF IsNone(text) THEN <<>> ELSE Join(<<" ">>, Split(text[2]))

\* the projection carried by an added or removed entry
ProjectEntry(rec) ==
  [uuid |-> Get(rec, "uuid"),
   animal_id |-> Get(rec, "animal_id"),
   name |-> Get(rec, "name"),
   species |-> Get(rec, "species"),
   sex |-> Get(rec, "sex"),
   age_key |-> Get(rec, "age_key"),
   size_key |-> Get(rec, "size_key"),
   breed_primary_name |-> Get(rec, "breed_primary_name"),
   status |-> Get(rec, "status"),
   location |-> Get(rec, "location")]

\* set(rec.get("characteristic_keys") or [])
KeySet(rec) ==
  LET v == Get(rec, "characteristic_keys")
  IN IF Truthy(v) THEN Range(v[2]) ELSE {}

char_added(old, new, seed) == Sorted(KeySet(new) \ KeySet(old), seed)

\* every key of old taken as removed
char_removed_of_all_old(old, new, seed) == Sorted(KeySet(old), seed)

char_removed(old, new, seed) == Sorted(KeySet(old) \ KeySet(new), seed)

description_changed(old, new) ==
  normalize_html(Get(old, "description_html")) # normalize_html(Get(new, "description_html"))

\* the foster values compared as they are, not as booleans
location_changed_raw_foster(old, new) ==
  \/ Get(old, "location") # Get(new, "location")
  \/ Get(old, "foster") # Get(new, "foster")

location_changed(old, new) ==
  \/ Get(old, "location") # Get(new, "location")
  \/ Truthy(Get(old, "foster")) # Truthy(Get(new, "foster"))

\* the label looked at before the foster flags
location_change_type_label_first(old, new) ==
  LET old_foster == Truthy(Get(old, "foster"))
      new_foster == Truthy(Get(new, "foster"))
  IN IF ~location_changed(old, new) THEN "null"
     ELSE IF Get(old, "location") # Get(new, "location") THEN "kennel_move"
     ELSE IF ~old_foster /\ new_foster THEN "went_to_foster"
     ELSE IF old_foster /\ ~new_foster THEN "returned_from_foster"
     ELSE "other"

location_change_type(old, new) ==
  LET old_foster == Truthy(Get(old, "foster"))
      new_foster == Truthy(Get(new, "foster"))
  IN IF ~location_changed(old, new) THEN "null"
     ELSE IF ~old_foster /\ new_foster THEN "went_to_foster"
     ELSE IF old_foster /\ ~new_foster THEN "returned_from_foster"
     ELSE IF Get(old, "location") # Get(new, "location") THEN "kennel_move"
     ELSE "other"

\* the raw bios compared instead of the normalized ones
AnythingChangedRawBio(old, new) ==
  \/ KeySet(new) \ KeySet(old) # {}
  \/ KeySet(old) \ KeySet(new) # {}
  \/ Get(old, "description_html") # Get(new, "description_html")
  \/ location_changed(old, new)

\* the condition of line 124: `if char_added or char_removed or ...`
AnythingChanged(old, new) ==
  \/ KeySet(new) \ KeySet(old) # {}
  \/ KeySet(old) \ KeySet(new) # {}
  \/ description_changed(old, new)
  \/ location_changed(old, new)

\* the entry appended to animals_changed
ChangedEntry(pid, old, new, seed) ==
  [uuid |-> pid,
   animal_id |-> GetOr(new, "animal_id", Get(old, "animal_id")),
   name |-> GetOr(new, "name", Get(old, "name")),
   species |-> GetOr(new, "species", Get(old, "species")),
   sex |-> GetOr(new, "sex", Get(old, "sex")),
   age_key |-> GetOr(new, "age_key", Get(old, "age_key")),
   size_key |-> GetOr(new, "size_key", Get(old, "size_key")),
   breed_primary_name |-> GetOr(new, "breed_primary_name", Get(old, "breed_primary_name")),
   status_old |-> Get(old, "status"),
   status_new |-> Get(new, "status"),
   location_old |-> Get(old, "location"),
   location_new |-> Get(new, "location"),
   foster_old |-> Truthy(Get(old, "foster")),
   foster_new |-> Truthy(Get(new, "foster")),
   location_changed |-> location_changed(old, new),
   location_change_type |-> location_change_type(old, new),
   characteristics_added |-> char_added(old, new, seed),
   characteristics_removed |-> char_removed(old, new, seed),
   description_changed |-> description_changed(old, new),
   description_old |-> Get(old, "description_html"),
   description_new |-> Get(new, "description_html")]

\* every identity of new taken as added
AddedIdsOfAllNew(old_ids, new_ids, seed) == Sorted(new_ids, seed)

\* lines 38-40
AddedIds(old_ids, new_ids, seed) == Sorted(new_ids \ old_ids, seed)
RemovedIds(old_ids, new_ids, seed) == Sorted(old_ids \ new_ids, seed)
CommonIds(old_ids, new_ids, seed) == Sorted(old_ids \cap new_ids, seed)

\* the changed entries counted as the identities of both files
summary_changed_of_common(old_ids, new_ids, animals_added, animals_removed, animals_changed) ==
  [total_old |-> Cardinality(old_ids),
   total_new |-> Cardinality(new_ids),
   animals_added |-> Len(animals_added),
   animals_removed |-> Len(animals_removed),
   animals_changed |-> Cardinality(old_ids \cap new_ids)]

\* the summary dict, lines 166-172
summary(old_ids, new_ids, animals_added, animals_removed, animals_changed) ==
  [total_old |-> Cardinality(old_ids),
   total_new |-> Cardinality(new_ids),
   animals_added |-> Len(animals_added),
   animals_removed |-> Len(animals_removed),
   animals_changed |-> Len(animals_changed)]

\* compare_snapshots(old_path, new_path), run when the clock reads t by a
\* process of hash seed `seed`
compare_snapshots(old_records, new_records, t, seed) ==
  LET old_data == load_snapshot(old_records)
      new_data == load_snapshot(new_records)
      old_ids == DOMAIN old_data
      new_ids == DOMAIN new_data
      added_ids == AddedIds(old_ids, new_ids, seed)
      removed_ids == RemovedIds(old_ids, new_ids, seed)
      common_ids == CommonIds(old_ids, new_ids, seed)
      animals_added == [i \in 1..Len(added_ids) |-> ProjectEntry(new_data[added_ids[i]])]
      animals_removed == [i \in 1..Len(removed_ids) |-> ProjectEntry(old_data[removed_ids[i]])]
      changed_ids == SelectSeq(common_ids,
                        LAMBDA pid : AnythingChanged(old_data[pid], new_data[pid]))
      animals_changed == [i \in 1..Len(changed_ids) |->
                            ChangedEntry(changed_ids[i], old_data[changed_ids[i]],
                                         new_data[changed_ids[i]], seed)]
  IN [generated_at |-> t,
      old_snapshot |-> "old_path",
      new_snapshot |-> "new_path",
      summary |-> summary(old_ids, new_ids, animals_added, animals_removed, animals_changed),
      animals_added |-> animals_added,
      animals_removed |-> animals_removed,
      animals_changed |-> animals_changed]

\* ------------------------------------------------------------------------
\* Snapshot inputs
\* ------------------------------------------------------------------------
MaxRecs == 2     \* records in the two snapshot files together
MaxRuns == 2     \* runs of the compare command
MaxFiles == 3    \* files of the directory the history command scans

Str(s) == PyStr(s)

\* the identities of the roster ("code" of the upstream list item)
Ids == {<<"7">>, <<"8">>}

\* a record as normalize_record of fetch_adopets_snapshot.py writes it
BaseRec(id) ==
  [uuid |-> Str(<<"u">> \o id),
   animal_id |-> Str(id),
   name |-> Str(<<"R">>),
   species |-> Str(<<"d">>),
   sex |-> Str(<<"m">>),
   age_key |-> Str(<<"a">>),
   size_key |-> Str(<<"s">>),
   breed_primary_name |-> Str(<<"b">>),
   status |-> Str(<<"a">>),
   foster |-> PyBool(FALSE),
   kennel_number |-> Str(<<"A">>),
   location |-> Str(<<"K", "A">>),
   picture |-> Str(<<"p">>),
   description_html |-> Str(<<"a", " ", "b">>),
   characteristic_keys |-> PyList(<<Str(<<"f">>)>>),
   characteristic_names |-> PyList(<<Str(<<"F">>)>>)]

\* ------------------------------------------------------------------------
\* animal_history.py
\* ------------------------------------------------------------------------
\* normalize_text: " ".join((s or "").split())
normalize_text(v) == IF Truthy(v) THEN Join(<<" ">>, Split(v[2])) ELSE <<>>

\* safe_list: x if isinstance(x, list) else []
safe_list(v) == IF IsList(v) THEN v[2] ELSE <<>>

\* as_str: "" if x is None else str(x)
as_str(v) == IF IsNone(v) THEN <<>> ELSE v[2]

\* load_snapshot_records: only the dict elements of the array are kept
load_snapshot_records(data) == SelectSeq(data, IsDict)

\* the record looked at last returned when none matches
find_animal_in_snapshot_fallthrough(data, animal_id) ==
  LET records == load_snapshot_records(data[2])
      match == {i \in 1..Len(records) :
                  Strip(as_str(Get(records[i][2], "animal_id"))) = animal_id}
  IN IF match = {} THEN (IF records = <<>> THEN PyNone ELSE records[Len(records)])
     ELSE records[CHOOSE i \in match : \A j \in match : i <= j]

\* find_animal_in_snapshot: the first record whose trimmed id is animal_id,
\* None when there is none
find_animal_in_snapshot(data, animal_id) ==
  LET records == load_snapshot_records(data[2])
      match == {i \in 1..Len(records) :
                  Strip(as_str(Get(records[i][2], "animal_id"))) = animal_id}
  IN IF match = {} THEN PyNone
     ELSE records[CHOOSE i \in match : \A j \in match : i <= j]

\* pick_fields
pick_fields(rec) ==
  [uuid |-> Get(rec, "uuid"),
   animal_id |-> Get(rec, "animal_id"),
   name |-> Get(rec, "name"),
   species |-> Get(rec, "species"),
   sex |-> Get(rec, "sex"),
   age_key |-> Get(rec, "age_key"),
   size_key |-> Get(rec, "size_key"),
   breed_primary_name |-> Get(rec, "breed_primary_name"),
   status |-> Get(rec, "status"),
   location |-> Get(rec, "location"),
   foster |-> Get(rec, "foster"),
   kennel_number |-> Get(rec, "kennel_number"),
   picture |-> Get(rec, "picture"),
   characteristic_keys |-> PyList(safe_list(Get(rec, "characteristic_keys"))),
   characteristic_names |-> PyList(safe_list(Get(rec, "characteristic_names"))),
   description_html |-> Get(rec, "description_html")]

scalar_fields ==
  {"name", "species", "sex", "age_key", "size_key",
   "breed_primary_name", "status", "location", "kennel_number"}

\* the bio class of diff_records, "" when the normalized bios are equal
BioType(prev, cur) ==
  LET prev_bio == normalize_text(Get(prev, "description_html"))
      cur_bio == normalize_text(Get(cur, "description_html"))
  IN IF prev_bio = cur_bio THEN ""
     ELSE IF prev_bio = <<>> /\ cur_bio # <<>> THEN "added"
     ELSE IF prev_bio # <<>> /\ cur_bio = <<>> THEN "removed"
     ELSE "changed"

\* diff_records: the dict of changes, a function from its keys
diff_records(prev, cur, seed) ==
  LET prev_keys == Range(safe_list(Get(prev, "characteristic_keys")))
      cur_keys == Range(safe_list(Get(cur, "characteristic_keys")))
      bio_type == BioType(prev, cur)
      keys == {k \in scalar_fields : Get(prev, k) # Get(cur, k)}
              \cup (IF Truthy(Get(prev, "foster")) # Truthy(Get(cur, "foster"))
                    THEN {"foster"} ELSE {})
              \cup (IF prev_keys # cur_keys THEN {"traits"} ELSE {})
              \cup (IF bio_type # "" THEN {"bio"} ELSE {})
  IN [k \in keys |->
        CASE k = "foster" -> [old |-> PyBool(Truthy(Get(prev, "foster"))),
                              new |-> PyBool(Truthy(Get(cur, "foster")))]
          [] k = "traits" -> [added |-> Sorted(cur_keys \ prev_keys, seed),
                              removed |-> Sorted(prev_keys \ cur_keys, seed)]
          [] k = "bio" -> [type |-> bio_type]
          [] OTHER -> [old |-> Get(prev, k), new |-> Get(cur, k)]]

\* A file of the snapshot directory: its name, made of a prefix and the
\* timestamp it embeds, and the JSON value it holds.
SnapFile(prefix, stamp, data) == [name |-> [prefix |-> prefix, stamp |-> stamp], data |-> data]

\* parse_snapshot_dt: the datetime embedded in the name
parse_snapshot_dt(name) == name.stamp

\* the digits timestamps are written with
TimestampDigits == <<"1", "2", "3", "4", "5", "6", "7", "8", "9">>

\* SNAP_TS_PATTERN.search(p.name); stamp 0 stands for a name without timestamp
HasTimestamp(name) == name.stamp # 0

\* parse_snapshot_dt raises ValueError: a negative stamp stands for digits
\* in the pattern's places that strptime takes for no date and time, as
\* in 2025-13-01T00-00-00.json
ParseRaises(name) == name.stamp < 0

RECURSIVE InsertByDt(_, _)
InsertByDt(f, q) ==
  IF q = <<>> THEN <<f>>
  ELSE IF parse_snapshot_dt(f.name) < parse_snapshot_dt(q[1].name) THEN <<f>> \o q
  ELSE <<q[1]>> \o InsertByDt(f, Tail(q))

RECURSIVE SortByDt(_)
\* list.sort(key=parse_snapshot_dt): stable, equal keys keep their order
SortByDt(q) ==
  IF q = <<>> THEN <<>>
  ELSE InsertByDt(q[Len(q)], SortByDt(SubSeq(q, 1, Len(q) - 1)))

\* snapshot_files: listing is snapshot_dir.glob("*.json") in the order the
\* file system yields it
snapshot_files(listing) ==
  SortByDt(SelectSeq(listing,
     LAMBDA f : /\ f.name.prefix # "diff_"
                /\ f.name # [prefix |-> "latest_diff", stamp |-> 0]
                /\ HasTimestamp(f.name)))

\* snaps.sort(key=parse_snapshot_dt) raises on a name kept by the loop
snapshot_files_raises(listing) ==
  \E i \in 1..Len(listing) :
    /\ listing[i].name.prefix # "diff_"
    /\ listing[i].name # [prefix |-> "latest_diff", stamp |-> 0]
    /\ HasTimestamp(listing[i].name)
    /\ ParseRaises(listing[i].name)

\* json.load of the file is no list: load_snapshot_records raises ValueError
LoadRecordsRaises(data) == ~IsList(data)

\* the loop of main over the ordered snapshots
CollectHits(snaps, animal_id) ==
  LET looked == [i \in 1..Len(snaps) |->
                   [path |-> snaps[i].name,
                    dt |-> parse_snapshot_dt(snaps[i].name),
                    rec |-> find_animal_in_snapshot(snaps[i].data, animal_id)]]
      found == SelectSeq(looked, LAMBDA h : ~IsNone(h.rec))
  IN [i \in 1..Len(found) |->
        [path |-> found[i].path,
         dt |-> found[i].dt,
         record |-> pick_fields(found[i].rec[2])]]

\* the hits scanned forwards: the first hit with a bio
latest_nonempty_bio_forward(hits) ==
  LET bio == [i \in 1..Len(hits) |-> normalize_text(Get(hits[i].record, "description_html"))]
      with == {i \in 1..Len(hits) : bio[i] # <<>>}
  IN IF with = {} THEN <<>>
     ELSE LET i == CHOOSE k \in with : \A j \in with : k <= j
          IN <<hits[i].dt, bio[i]>>

\* latest_nonempty_bio: <<dt, bio>> of the last hit with a bio, <<>> for None
latest_nonempty_bio(hits) ==
  LET bio == [i \in 1..Len(hits) |-> normalize_text(Get(hits[i].record, "description_html"))]
      with == {i \in 1..Len(hits) : bio[i] # <<>>}
  IN IF with = {} THEN <<>>
     ELSE LET i == CHOOSE k \in with : \A j \in with : j <= k
          IN <<hits[i].dt, bio[i]>>

\* only the trait keys looked at: `if keys:`
latest_nonempty_traits_keys_only(hits) ==
  LET keys(i) == safe_list(Get(hits[i].record, "characteristic_keys"))
      names(i) == safe_list(Get(hits[i].record, "characteristic_names"))
      with == {i \in 1..Len(hits) : keys(i) # <<>>}
  IN IF with = {} THEN <<>>
     ELSE LET i == CHOOSE k \in with : \A j \in with : j <= k
          IN <<hits[i].dt,
               [n \in 1..Len(keys(i)) |-> as_str(keys(i)[n])],
               [n \in 1..Len(names(i)) |-> as_str(names(i)[n])]>>

\* latest_nonempty_traits: <<dt, keys, names>> of the last hit with a trait
\* key or a trait name, <<>> for None
latest_nonempty_traits(hits) ==
  LET keys(i) == safe_list(Get(hits[i].record, "characteristic_keys"))
      names(i) == safe_list(Get(hits[i].record, "characteristic_names"))
      with == {i \in 1..Len(hits) : keys(i) # <<>> \/ names(i) # <<>>}
  IN IF with = {} THEN <<>>
     ELSE LET i == CHOOSE k \in with : \A j \in with : j <= k
          IN <<hits[i].dt,
               [n \in 1..Len(keys(i)) |-> as_str(keys(i)[n])],
               [n \in 1..Len(names(i)) |-> as_str(names(i)[n])]>>

\* the restore_pack dict, a function from the keys that are set
RestorePack(hits) ==
  LET bio == latest_nonempty_bio(hits)
      traits == latest_nonempty_traits(hits)
      keys == (IF bio # <<>> THEN {"latest_nonempty_bio"} ELSE {})
              \cup (IF traits # <<>> THEN {"latest_nonempty_traits"} ELSE {})
  IN [k \in keys |->
        IF k = "latest_nonempty_bio"
        THEN [dt |-> bio[1], text |-> bio[2]]
        ELSE [dt |-> traits[1], characteristic_keys |-> traits[2],
              characteristic_names |-> traits[3]]]

\* every hit diffed against the baseline
PrevOfBaseline(hits, i) == hits[1].record

\* the record hit i is diffed against: `prev = cur` at the end of each round
PrevOf(hits, i) == hits[i - 1].record

\* `changes or None`
OrNone(changes) == IF DOMAIN changes = {} THEN PyNone ELSE PyDict(changes)

\* render_json
render_json(animal_id, hits, seed) ==
  [animal_id |-> animal_id,
   snapshots_found |-> Len(hits),
   history |->
     [i \in 1..Len(hits) |->
        [dt |-> hits[i].dt,
         snapshot |-> hits[i].path,
         record |-> hits[i].record,
         changes_from_prev |->
           IF i = 1 THEN PyNone
           ELSE OrNone(diff_records(PrevOf(hits, i), hits[i].record, seed))]],
   restore_pack |-> IF hits = <<>> THEN <<>> ELSE RestorePack(hits)]

\* render_md: the sections of the markdown text
render_md(animal_id, hits, show_bio, seed) ==
  IF hits = <<>>
  THEN [title |-> <<"No snapshots contained animal_id", animal_id>>]
  ELSE
    LET last == hits[Len(hits)]
        v(k) == IF Get(last.record, k) \in {Str(<<>>), PyNone, PyList(<<>>)}
                THEN Str(<<"-">>) ELSE Get(last.record, k)
        changes == [i \in 2..Len(hits) |->
                      diff_records(PrevOf(hits, i), hits[i].record, seed)]
        logged == SelectSeq([i \in 1..Len(hits) |-> i],
                            LAMBDA i : i > 1 /\ DOMAIN changes[i] # {})
        bio == latest_nonempty_bio(hits)
        traits == latest_nonempty_traits(hits)
    IN [title |-> <<"Animal History", animal_id, GetOr(hits[1].record, "name", Str(<<"?">>))>>,
        snapshots_found |-> Len(hits),
        first_seen |-> <<hits[1].dt, hits[1].path>>,
        last_seen |-> <<last.dt, last.path>>,
        latest |-> [k \in {"name", "species", "sex", "age_key", "size_key",
                           "breed_primary_name", "status", "location"} |-> v(k)],
        baseline |-> <<hits[1].dt, hits[1].path>>,
        change_log |->
          [n \in 1..Len(logged) |->
             [dt |-> hits[logged[n]].dt,
              snapshot |-> hits[logged[n]].path,
              changes |-> changes[logged[n]],
              bios |-> IF show_bio /\ "bio" \in DOMAIN changes[logged[n]]
                       THEN <<normalize_text(Get(PrevOf(hits, logged[n]), "description_html")),
                              normalize_text(Get(hits[logged[n]].record, "description_html"))>>
                       ELSE <<>>]],
        restore_bio |-> bio,
        restore_traits |-> traits]

\* ------------------------------------------------------------------------
\* crosscheck_removals.py
\* ------------------------------------------------------------------------
\* a missing value of a DataFrame column
NaN == <<"nan">>

\* a row of the outcomes table
OutcomeRow(animal_id, outcome_status) ==
  [animal_id |-> animal_id, outcome_status |-> outcome_status]

\* d[k] = v of a dict
SetItem(d, k, v) == [x \in DOMAIN d \cup {k} |-> IF x = k THEN v ELSE d[x]]

\* str(x) of an identity value
str(v) == IF IsNone(v) THEN <<"N", "o", "n", "e">> ELSE v[2]

\* groupby("animal_id")["outcome_status"].apply(sorted(set(dropna))).to_dict():
\* the keys are the animal_id values of the table as they are
grouped(outcomes_df, seed) ==
  [id \in {outcomes_df[i].animal_id : i \in 1..Len(outcomes_df)} |->
     Sorted({outcomes_df[i].outcome_status : i \in
               {j \in 1..Len(outcomes_df) : /\ outcomes_df[j].animal_id = id
                                            /\ outcomes_df[j].outcome_status # NaN}}, seed)]

\* grouped.get(str(rec.get("animal_id", "")).strip(), [])
types_of(rec, outcomes_df, seed) ==
  LET animal_id == PyStr(Strip(str(GetOr(rec, "animal_id", PyStr(<<>>)))))
      g == grouped(outcomes_df, seed)
  IN IF animal_id \in DOMAIN g THEN g[animal_id] ELSE <<>>

\* the first type alone
status_of_first(types) ==
  IF types = <<>> THEN PyNone ELSE types[1]

\* the value put into rec["outcome_status"], lines 225-234
status_of(types) ==
  IF types = <<>> THEN PyNone
  ELSE IF Len(types) = 1 THEN types[1]
  ELSE PyStr(Join(<<" ", "/", " ">>, [i \in 1..Len(types) |-> types[i][2]]))

\* the counts added to those the diff carries already
attach_outcome_status_accumulating(diff, outcomes_df, seed) ==
  LET removed == diff.animals_removed
      types(i) == types_of(removed[i], outcomes_df, seed)
      had == IF "removal_outcome_summary_simple" \in DOMAIN diff
             THEN diff.removal_outcome_summary_simple
             ELSE [total_removed |-> 0, with_outcome |-> 0, without_outcome |-> 0]
      counts == [total_removed |-> Len(removed),
                 with_outcome |-> had.with_outcome
                                    + Cardinality({i \in 1..Len(removed) : types(i) # <<>>}),
                 without_outcome |-> had.without_outcome
                                       + Cardinality({i \in 1..Len(removed) : types(i) = <<>>})]
  IN IF removed = <<>> THEN diff
     ELSE SetItem([diff EXCEPT !.animals_removed =
                     [i \in 1..Len(removed) |->
                        SetItem(removed[i], "outcome_status", status_of(types(i)))]],
                  "removal_outcome_summary_simple", counts)

\* attach_outcome_status(diff, outcomes_df) in a run of hash seed `seed`
attach_outcome_status(diff, outcomes_df, seed) ==
  LET removed == diff.animals_removed
      types(i) == types_of(removed[i], outcomes_df, seed)
      counts == [total_removed |-> Len(removed),
                 with_outcome |-> Cardinality({i \in 1..Len(removed) : types(i) # <<>>}),
                 without_outcome |-> Cardinality({i \in 1..Len(removed) : types(i) = <<>>})]
  IN IF removed = <<>> THEN diff
     ELSE SetItem([diff EXCEPT !.animals_removed =
                     [i \in 1..Len(removed) |->
                        SetItem(removed[i], "outcome_status", status_of(types(i)))]],
                  "removal_outcome_summary_simple", counts)

\* the name the compare command gives the diff of the snapshots of
\* timestamps old and new, diff_<old stem>_to_<new stem>.json; a timestamp
\* is one digit here, of fixed width as the timestamps of the names are
diff_name(d) ==
  <<"d", "i", "f", "f", "_", TimestampDigits[d[1]], "_", "t", "o", "_", TimestampDigits[d[2]]>>

\* find_latest_diff: sorted(glob("diff_*.json"))[-1], None without a diff
find_latest_diff(dir) ==
  IF dir = {} THEN PyNone
  ELSE CHOOSE d \in dir : \A e \in dir : e = d \/ SeqLess(diff_name(e), diff_name(d))

\* ------------------------------------------------------------------------
\* fetch_adopets_snapshot.py
\* ------------------------------------------------------------------------
\* the characteristics loop of normalize_record: the entries that unwrap to
\* a characteristic, here PyDict([key, name]), the others None
usable_chars(pet_chars) == SelectSeq(pet_chars, LAMBDA c : IsDict(c))

\* the values of field k of the characteristics that have one
char_values(pet_chars, k) ==
  LET with == SelectSeq(usable_chars(pet_chars), LAMBDA c : Truthy(Get(c[2], k)))
  IN [i \in 1..Len(with) |-> Get(with[i][2], k)]

\* the location label: "Foster", "Kennel <kennel>" or "Unspecified"
location_label(foster, kennel) ==
  IF Truthy(foster) THEN PyStr(<<"F", "o", "s", "t", "e", "r">>)
  ELSE IF Truthy(kennel) THEN PyStr(<<"K", "e", "n", "n", "e", "l", " ">> \o kennel[2])
  ELSE PyStr(<<"U", "n", "s", "p", "e", "c", "i", "f", "i", "e", "d">>)

\* normalize_record(list_item, detail_data); org_pet_list is the
\* organization_pet of the list item, detail_data has the description and
\* the pet_characteristics of the detail's organization_pet
normalize_record(org_pet_list, detail_data) ==
  PyDict(
  [uuid |-> Get(org_pet_list, "uuid"),
   animal_id |-> Get(org_pet_list, "code"),
   name |-> Get(org_pet_list, "name"),
   species |-> Get(org_pet_list, "specie_name"),
   sex |-> Get(org_pet_list, "sex_key"),
   age_key |-> Get(org_pet_list, "age_key"),
   size_key |-> Get(org_pet_list, "size_key"),
   breed_primary_name |-> Get(org_pet_list, "breed_primary_name"),
   status |-> Get(org_pet_list, "status_key"),
   foster |-> Get(org_pet_list, "foster"),
   kennel_number |-> Get(org_pet_list, "kennel_number"),
   location |-> location_label(Get(org_pet_list, "foster"), Get(org_pet_list, "kennel_number")),
   picture |-> Get(org_pet_list, "picture"),
   description_html |-> IF Truthy(Get(detail_data, "description"))
                        THEN Get(detail_data, "description")
                        ELSE Get(org_pet_list, "description"),
   characteristic_keys |-> PyList(char_values(Get(detail_data, "pet_characteristics")[2], "key")),
   characteristic_names |-> PyList(char_values(Get(detail_data, "pet_characteristics")[2], "name"))])

\* the record put at the place of its arrival
store_by_arrival(records, idx, record, arrival) == [records EXCEPT ![arrival] = record]

\* records[idx] = record
store(records, idx, record, arrival) == [records EXCEPT ![idx] = record]

\* ------------------------------------------------------------------------
\* email_adopets_changes.py and render_diff_report.py
\* ------------------------------------------------------------------------
\* " ".join((desc or "").split())
squeeze(desc) == IF Truthy(desc) THEN Join(<<" ">>, Split(desc[2])) ELSE <<>>

\* the number of elements of b that are c
Count(b, c) == Cardinality({j \in 1..Len(b) : b[j] = c})

RECURSIVE SumOver(_, _)
\* the sum of f over the set S
SumOver(S, f) ==
  IF S = {} THEN 0
  ELSE LET c == CHOOSE x \in S : TRUE IN f[c] + SumOver(S \ {c}, f)

\* the loop of SequenceMatcher.quick_ratio over the elements of a: an
\* element counts as long as b has it more often than a has used it, so
\* each element of a counts as often as the text that has it less often has it
quick_matches(a, b) ==
  SumOver(Range(a), [c \in Range(a) |->
                       IF Count(a, c) < Count(b, c) THEN Count(a, c) ELSE Count(b, c)])

\* _calculate_ratio(matches, length), the fraction <<numerator, denominator>>
calculate_ratio(matches, length) == IF length = 0 THEN <<1, 1>> ELSE <<2 * matches, length>>

\* SequenceMatcher(None, a, b).quick_ratio()
quick_ratio(a, b) ==
  calculate_ratio(quick_matches(a, b), Len(a) + Len(b))

\* find_longest_match(alo, ahi, blo, bhi): <<i, j, k>> with
\* a[i:i+k] == b[j:j+k], k greatest, then i least, then j least; no junk
find_longest_match(a, b, alo, ahi, blo, bhi) ==
  LET cands == {c \in (alo..(ahi - 1)) \X (blo..(bhi - 1)) \X (1..(ahi - alo)) :
                  /\ c[1] + c[3] <= ahi
                  /\ c[2] + c[3] <= bhi
                  /\ \A d \in 1..c[3] : a[c[1] + d] = b[c[2] + d]}
  IN IF cands = {} THEN <<alo, blo, 0>>
     ELSE CHOOSE c \in cands :
            \A e \in cands :
              \/ c[3] > e[3]
              \/ c[3] = e[3] /\ c[1] < e[1]
              \/ c[3] = e[3] /\ c[1] = e[1] /\ c[2] <= e[2]

RECURSIVE matching_size(_, _, _, _, _, _)
\* the sum of the sizes of get_matching_blocks within a[alo:ahi], b[blo:bhi]
matching_size(a, b, alo, ahi, blo, bhi) ==
  LET x == find_longest_match(a, b, alo, ahi, blo, bhi)
  IN IF x[3] = 0 THEN 0
     ELSE x[3]
            + (IF alo < x[1] /\ blo < x[2]
               THEN matching_size(a, b, alo, x[1], blo, x[2]) ELSE 0)
            + (IF x[1] + x[3] < ahi /\ x[2] + x[3] < bhi
               THEN matching_size(a, b, x[1] + x[3], ahi, x[2] + x[3], bhi) ELSE 0)

\* SequenceMatcher(None, a, b).ratio()
ratio(a, b) == calculate_ratio(matching_size(a, b, 0, Len(a), 0, Len(b)), Len(a) + Len(b))

\* sm.ratio() alone
matcher_ratio_exact(a, b) == ratio(a, b)

\* sm.quick_ratio() or sm.ratio()
matcher_ratio(a, b) == IF quick_ratio(a, b)[1] # 0 THEN quick_ratio(a, b) ELSE ratio(a, b)

\* n / d rounded to an integer, a half to the even one
Round(n, d) ==
  LET q == n \div d
      r == n % d
  IN IF 2 * r < d THEN q
     ELSE IF 2 * r > d THEN q + 1
     ELSE IF q % 2 = 0 THEN q ELSE q + 1

\* (1 - ratio) * 100 in tenths of a percent, as the fraction <<n, d>>
delta_of(r) == <<1000 * (r[2] - r[1]), r[2]>>

\* compute_bio_delta of email_adopets_changes.py, in tenths of a percent:
\* 0 below 0.1, else round(delta, 1)
compute_bio_delta(old_desc, new_desc) ==
  LET old_text == squeeze(old_desc)
      new_text == squeeze(new_desc)
      delta == delta_of(matcher_ratio(old_text, new_text))
  IN IF old_text = <<>> /\ new_text = <<>> THEN 0
     ELSE IF delta[1] < delta[2] THEN 0
     ELSE Round(delta[1], delta[2])

\* the delta_pct of summarize_bio_change of render_diff_report.py, in
\* tenths of a percent: round((1 - ratio) * 100, 1)
summarize_bio_change(old_desc, new_desc) ==
  LET old_text == squeeze(old_desc)
      new_text == squeeze(new_desc)
      delta == delta_of(matcher_ratio(old_text, new_text))
  IN IF old_text = <<>> /\ new_text = <<>> THEN 0
     ELSE Round(delta[1], delta[2])

\* rec.get(k) or ""
or_empty(v) == IF Truthy(v) THEN v[2] ELSE <<>>

\* bool(added or removed)
has_trait_change(rec) == rec.characteristics_added # <<>> \/ rec.characteristics_removed # <<>>

\* bool(rec.get("location_changed") or rec.get("location_change_type"))
has_location_change(rec) == rec.location_changed \/ rec.location_change_type # "null"

\* the branch of the bio loop the entry takes: "added", "removed", "both"
\* when both bios have text, "" when neither has
bio_branch(rec) ==
  LET old_has == Strip(or_empty(rec.description_old)) # <<>>
      new_has == Strip(or_empty(rec.description_new)) # <<>>
  IN IF ~old_has /\ new_has THEN "added"
     ELSE IF old_has /\ ~new_has THEN "removed"
     ELSE IF old_has /\ new_has THEN "both"
     ELSE ""

\* the entries of animals_changed whose description_changed is set and
\* that take the branch b
bio_bucket(animals_changed, b) ==
  SelectSeq(animals_changed, LAMBDA rec : rec.description_changed /\ bio_branch(rec) = b)

\* the entries of location_changes of the type t
location_bucket(animals_changed, t) ==
  SelectSeq(animals_changed,
            LAMBDA rec : has_location_change(rec) /\ rec.location_change_type = t)

\* the final else of the location loop
location_bucket_other(animals_changed) ==
  SelectSeq(animals_changed,
            LAMBDA rec : /\ has_location_change(rec)
                         /\ rec.location_change_type
                              \notin {"went_to_foster", "returned_from_foster", "kennel_move"})

\* the rec_copy of each entry, with its bio_delta_pct
with_delta(recs) ==
  [i \in 1..Len(recs) |->
     SetItem(recs[i], "bio_delta_pct",
             compute_bio_delta(recs[i].description_old, recs[i].description_new))]

\* each entry with the percentage the report prints for it
with_bio_summary(recs) ==
  [i \in 1..Len(recs) |->
     SetItem(recs[i], "bio_delta_pct",
             summarize_bio_change(recs[i].description_old, recs[i].description_new))]

\* classify_changes of email_adopets_changes.py: an edited bio whose
\* compute_bio_delta is 0.0 is left out of bios_changed
classify_changes(diff) ==
  LET animals_changed == diff.animals_changed
  IN [summary |-> diff.summary,
      animals_added |-> diff.animals_added,
      animals_removed |-> diff.animals_removed,
      animals_changed |-> animals_changed,
      traits_added |-> SelectSeq(animals_changed, LAMBDA rec : rec.characteristics_added # <<>>),
      traits_removed |-> SelectSeq(animals_changed, LAMBDA rec : rec.characteristics_removed # <<>>),
      bios_added |-> bio_bucket(animals_changed, "added"),
      bios_removed |-> bio_bucket(animals_changed, "removed"),
      bios_changed |->
        with_delta(SelectSeq(bio_bucket(animals_changed, "both"),
                             LAMBDA rec : compute_bio_delta(rec.description_old,
                                                            rec.description_new) # 0)),
      location_changes |-> SelectSeq(animals_changed, has_location_change),
      went_to_foster |-> location_bucket(animals_changed, "went_to_foster"),
      returned_from_foster |-> location_bucket(animals_changed, "returned_from_foster"),
      kennel_moves |-> location_bucket(animals_changed, "kennel_move"),
      other_loc |-> location_bucket_other(animals_changed)]

\* species_sort_key: (grp, name.lower(), str(animal_id))
species_sort_key(rec) ==
  LET species == [i \in 1..Len(Strip(or_empty(rec.species))) |->
                    LowerChar(Strip(or_empty(rec.species))[i])]
      name == or_empty(rec.name)
  IN <<IF species = <<"d", "o", "g">> THEN 0 ELSE IF species = <<"c", "a", "t">> THEN 1 ELSE 2,
       [i \in 1..Len(name) |-> LowerChar(name[i])],
       or_empty(rec.animal_id)>>

\* a < b of two sort keys
KeyLess(a, b) ==
  \/ a[1] < b[1]
  \/ a[1] = b[1] /\ SeqLess(a[2], b[2])
  \/ a[1] = b[1] /\ a[2] = b[2] /\ SeqLess(a[3], b[3])

RECURSIVE InsertByKey(_, _)
\* x put behind every element of the sorted list q whose key is not above its key
InsertByKey(x, q) ==
  IF q = <<>> THEN <<x>>
  ELSE IF KeyLess(species_sort_key(x), species_sort_key(q[1])) THEN <<x>> \o q
  ELSE <<q[1]>> \o InsertByKey(x, Tail(q))

RECURSIVE SortedByKey(_)
\* sorted(recs, key=species_sort_key)
SortedByKey(recs) ==
  IF recs = <<>> THEN <<>>
  ELSE InsertByKey(recs[Len(recs)], SortedByKey(SubSeq(recs, 1, Len(recs) - 1)))

\* make_markdown_report of render_diff_report.py: the records listed
\* under each heading of the report, in the order of their lines; every
\* edited bio is listed, with the delta_pct of summarize_bio_change
make_markdown_report(diff) ==
  LET animals_changed == diff.animals_changed
  IN [summary |-> diff.summary,
      profiles_added |-> SortedByKey(diff.animals_added),
      profiles_removed |-> SortedByKey(diff.animals_removed),
      traits_added |->
        SortedByKey(SelectSeq(animals_changed, LAMBDA rec : rec.characteristics_added # <<>>)),
      traits_removed |->
        SortedByKey(SelectSeq(animals_changed, LAMBDA rec : rec.characteristics_removed # <<>>)),
      bios_added |-> SortedByKey(bio_bucket(animals_changed, "added")),
      bios_removed |-> SortedByKey(bio_bucket(animals_changed, "removed")),
      bios_changed |->
        SortedByKey(with_bio_summary(bio_bucket(animals_changed, "both"))),
      went_to_foster |-> SortedByKey(location_bucket(animals_changed, "went_to_foster")),
      returned_from_foster |->
        SortedByKey(location_bucket(animals_changed, "returned_from_foster")),
      kennel_moves |-> SortedByKey(location_bucket(animals_changed, "kennel_move")),
      other_loc |-> SortedByKey(location_bucket_other(animals_changed))]

\* ------------------------------------------------------------------------
\* Inputs
\* ------------------------------------------------------------------------
\* the field values, other than the roster's usual ones, that a record of a
\* file given to the compare command takes
DiffAlts ==
  <<
   <<<<"animal_id", PyNone>>>>,
   <<<<"name", Str(<<"M">>)>>>>,
   <<<<"status", Str(<<"h">>)>>>>,
   <<<<"location", Str(<<"K", "B">>)>>>>,
   <<<<"foster", PyBool(TRUE)>>>>,
   <<<<"foster", PyNone>>>>,
   <<<<"characteristic_keys", PyList(<<>>)>>>>,
   <<<<"characteristic_keys", PyNone>>>>,
   <<<<"characteristic_keys", PyList(<<Str(<<"f">>), Str(<<"s">>)>>)>>>>,
   <<<<"characteristic_keys", PyList(<<Str(<<"s">>), Str(<<"f">>)>>)>>>>,
   <<<<"characteristic_keys", PyList(<<Str(<<"f">>), Str(<<"f">>)>>)>>>>,
   <<<<"description_html", PyNone>>>>,
   <<<<"description_html", Str(<<" ", "\n">>)>>>>,
   <<<<"description_html", Str(<<" ", "a", " ", "\n", "b", " ">>)>>>>,
   <<<<"description_html", Str(<<"a", " ", "c">>)>>>>
  >>

\* the same for a record of a file of the directory the history command
\* scans; an animal without characteristics has both lists empty
HistAlts ==
  <<
   <<<<"characteristic_keys", PyList(<<>>)>>>>,
   <<<<"characteristic_keys", PyList(<<>>)>>, <<"characteristic_names", PyList(<<>>)>>>>,
   <<<<"description_html", PyNone>>>>,
   <<<<"description_html", Str(<<" ", "\n">>)>>>>,
   <<<<"description_html", Str(<<"a", " ", "c">>)>>>>,
   <<<<"animal_id", Str(<<" ", "7">>)>>>>
  >>

RECURSIVE SetFields(_, _)
\* the record rec with the fields of alt set
SetFields(rec, alt) ==
  IF alt = <<>> THEN rec
  ELSE SetFields([rec EXCEPT ![alt[1][1]] = alt[1][2]], Tail(alt))

RosterFile(ids) == [i \in 1..Len(ids) |-> PyDict(BaseRec(ids[i]))]

\* the files whose records have the identities ids: the roster's usual
\* records, or one of them changed by one of alts
FileVariants(ids, alts) ==
  {RosterFile(ids)} \cup
  {[RosterFile(ids) EXCEPT ![i] = PyDict(SetFields(@[2], alts[n]))] :
     i \in 1..Len(ids), n \in 1..Len(alts)}

\* the shapes <<ids of old, ids of new>> of a pair of snapshot files
Shapes ==
  {sh \in SeqsUpTo(Ids, MaxRecs) \X SeqsUpTo(Ids, MaxRecs) :
     Len(sh[1]) + Len(sh[2]) <= MaxRecs}

\* the timestamps of k files in time order: one per fetch, or with file c a
\* copy, under another name, of the file before it
StampLists(k) ==
  {[i \in 1..k |-> i]} \cup {[i \in 1..k |-> IF i < c THEN i ELSE i - 1] : c \in 2..k}

\* the name prefix of a snapshot file that is the n-th of its timestamp
CopyPrefix(n) == IF n = 0 THEN "" ELSE "copy_"

\* what a file of the scanned directory holds: the animal asked for, or
\* another one
HistFiles ==
  FileVariants(<<<<"7">>>>, HistAlts) \cup {RosterFile(<<<<"8">>>>)}

\* the snapshot directory of timestamps st whose files hold the records fs
MakeDir(st, fs) ==
  [i \in 1..Len(st) |->
     SnapFile(CopyPrefix(Cardinality({j \in 1..(i - 1) : st[j] = st[i]})), st[i], PyList(fs[i]))]

\* ------------------------------------------------------------------------
\* The commands
\* ------------------------------------------------------------------------
VARIABLES
  old_file,      \* content of the file at old_path
  new_file,      \* content of the file at new_path
  missing,       \* the paths, of old_path, new_path and snapshot_dir, that do not exist
  now,           \* the wall clock, in seconds
  runs,          \* the diff artifacts written, one per run of the compare command
  c_exit,        \* how the latest run of the compare command ended
  snapshot_dir,  \* the files of the snapshot directory
  h_out,         \* what the history command has put out
  outcomes,      \* the outcomes table, a list of rows
  x_out,         \* the artifacts attach_outcome_status has returned, in order
  diffs,         \* the diff artifacts of the directory, <<old, new>> timestamps
  diff_path,     \* what find_latest_diff has returned, NotSearched before
  list_items,    \* the organization_pet of each item of the pet list
  details,       \* what the service has as the detail of each list item
  futures,       \* the future of each build_record(idx, item) submitted
  completed,     \* the indices of the futures that finished, not yet yielded
  yielded,       \* the indices as_completed has yielded, in that order
  records,       \* the records list of the snapshot command's main
  f_pc,          \* where the snapshot command's main is
  f_file,        \* <<l>> when the snapshot file was written with l, <<>> before
  mail,          \* <<c>> when classify_changes has returned c, <<>> before
  report,        \* <<r>> when make_markdown_report has put r together, <<>> before
  bio_in,        \* two bios, each one a string or None
  bio_out        \* the distances computed from one bio to the other, each way

vars == <<old_file, new_file, missing, now, runs, c_exit, snapshot_dir, h_out,
          outcomes, x_out, diffs, diff_path, list_items, details, futures, completed, yielded,
          records, f_pc, f_file, mail, report, bio_in, bio_out>>

\* the state of the snapshot command
fetching == <<list_items, details, futures, completed, yielded, records, f_pc, f_file>>

\* what the consumers of the diff artifact and the bio distances hold
reporting == <<mail, report, bio_in, bio_out>>

\* no distance computed yet
NotComputed == [xy |-> <<>>, yx |-> <<>>]

\* no consumer has run
NotSearched == <<"unset">>

\* no search for a diff has been made
NoSearch ==
  /\ diffs = {}
  /\ diff_path = NotSearched

NoReport ==
  /\ mail = <<>>
  /\ report = <<>>
  /\ bio_in = <<PyNone, PyNone>>
  /\ bio_out = NotComputed

\* the snapshot command is not run
NoFetch ==
  /\ list_items = <<>>
  /\ details = <<>>
  /\ futures = <<>>
  /\ completed = <<>>
  /\ yielded = <<>>
  /\ records = <<>>
  /\ f_pc = "none"
  /\ f_file = <<>>

\* what the outcome enrichment reads and returns
enrichment == <<outcomes, x_out, diffs, diff_path>>

\* what the commands read
inputs == <<old_file, new_file, missing, snapshot_dir>>

NoOutput == [format |-> "none"]

\* the compare command has not run
NotRun == [status |-> "none", message |-> ""]

\* the content of a file that json.load rejects
NotJson == <<"garbage">>

\* a JSON number
PyInt(n) == <<"int", n>>

\* the exception load_snapshot ends with on the file content f, "" when it
\* returns: json.load raises on f, or rec.get does on the first element
\* of the loop that is no dict (a key, when f is an object)
load_snapshot_error(f) ==
  IF f = NotJson THEN "JSONDecodeError"
  ELSE IF IsList(f) THEN (IF LoadSnapshotRaises(f[2]) THEN "AttributeError" ELSE "")
  ELSE IF IsDict(f) THEN (IF DOMAIN f[2] # {} THEN "AttributeError" ELSE "")
  ELSE "TypeError"

\* what `for rec in records` goes through when load_snapshot returns
records_of(f) == IF IsList(f) THEN f[2] ELSE <<>>

\* two snapshot files of one directory, given to the compare command
Init ==
  /\ \E sh \in Shapes :
       \E o \in FileVariants(sh[1], DiffAlts), n \in FileVariants(sh[2], DiffAlts) :
         /\ old_file = PyList(o)
         /\ new_file = PyList(n)
         /\ snapshot_dir = MakeDir(<<1, 2>>, <<o, n>>)
  /\ missing = {}
  /\ now = 0
  /\ runs = <<>>
  /\ c_exit = NotRun
  /\ h_out = NoOutput
  /\ outcomes = <<>>
  /\ x_out = <<>>
  /\ NoSearch
  /\ NoFetch
  /\ NoReport

\* a snapshot directory scanned by the history command
InitHistory ==
  /\ \E k \in 0..MaxFiles :
       \E st \in StampLists(k), fs \in [1..k -> HistFiles] :
         snapshot_dir = MakeDir(st, fs)
  /\ old_file = PyList(<<>>)
  /\ new_file = PyList(<<>>)
  /\ missing = {}
  /\ now = 0
  /\ runs = <<>>
  /\ c_exit = NotRun
  /\ h_out = NoOutput
  /\ outcomes = <<>>
  /\ x_out = <<>>
  /\ NoSearch
  /\ NoFetch
  /\ NoReport

\* the seconds that pass on the wall clock from one run to the next
Elapsed == {0, 1}

\* how main ends when it does not look whether new_path is a file
compare_exit_unchecked_new(m, o, n) ==
  IF "old_path" \in m
  THEN [status |-> "SystemExit", message |-> "Old snapshot not found: old_path"]
  ELSE IF load_snapshot_error(o) # ""
  THEN [status |-> "traceback", message |-> load_snapshot_error(o)]
  ELSE IF load_snapshot_error(n) # ""
  THEN [status |-> "traceback", message |-> load_snapshot_error(n)]
  ELSE [status |-> "ok", message |-> "Comparison complete."]

\* how main of compare_snapshots.py ends, with m the paths that are no
\* file and o, n the contents at old_path and new_path: SystemExit when a
\* path is no file, then the exception of load_snapshot on the old or on
\* the new file, raised before out_path is opened
compare_exit(m, o, n) ==
  IF "old_path" \in m
  THEN [status |-> "SystemExit", message |-> "Old snapshot not found: old_path"]
  ELSE IF "new_path" \in m
  THEN [status |-> "SystemExit", message |-> "New snapshot not found: new_path"]
  ELSE IF load_snapshot_error(o) # ""
  THEN [status |-> "traceback", message |-> load_snapshot_error(o)]
  ELSE IF load_snapshot_error(n) # ""
  THEN [status |-> "traceback", message |-> load_snapshot_error(n)]
  ELSE [status |-> "ok", message |-> "Comparison complete."]

\* main of compare_snapshots.py: diff the two files and write the artifact,
\* stamped with datetime.now(), unless main ends before
CompareMain ==
  /\ Len(runs) < MaxRuns
  /\ c_exit' = compare_exit(missing, old_file, new_file)
  /\ IF compare_exit(missing, old_file, new_file).status = "ok"
     THEN \E dt \in Elapsed, seed \in HashSeeds :
            /\ now' = now + dt
            /\ runs' = Append(runs, compare_snapshots(records_of(old_file), records_of(new_file),
                                                      now + dt, seed))
     ELSE UNCHANGED <<now, runs>>
  /\ UNCHANGED <<inputs, h_out, enrichment, fetching, reporting>>

\* the values of the animal_id argument; main strips it
AnimalIdArgs == {<<" ", "7", " ">>}

\* the command lines: --format and --show-bio
HistoryArgs ==
  {[format |-> "json", show_bio |-> FALSE],
   [format |-> "md", show_bio |-> FALSE],
   [format |-> "md", show_bio |-> TRUE]}

\* the orders in which glob yields n files: as stored, or backwards
GlobOrders(n) == {[i \in 1..n |-> i], [i \in 1..n |-> n + 1 - i]}

\* --output: not given, a path outside the snapshot directory, or the
\* path of file i of the snapshot directory
Stdout == <<"stdout", 0>>
Elsewhere == <<"path", 0>>
Outputs == {Stdout, Elsewhere} \cup {<<"path", i>> : i \in 1..Len(snapshot_dir)}

\* the content of a file after write_text(text)
Written(text) == <<"text", text>>

\* the directory after args.output.write_text(text)
write_text(dir, output, text) ==
  IF output[1] = "path" /\ output[2] \in DOMAIN dir
  THEN [dir EXCEPT ![output[2]].data = Written(text)]
  ELSE dir

\* main of animal_history.py, --output drawn from outputs
HistoryMainTo(outputs) ==
  /\ h_out = NoOutput
  /\ IF "snapshot_dir" \in missing
     THEN /\ h_out' = [format |-> "SystemExit", text |-> "Snapshot dir not found: snapshot_dir"]
          /\ snapshot_dir' = snapshot_dir
     ELSE
       \E arg \in AnimalIdArgs, order \in GlobOrders(Len(snapshot_dir)) :
         LET animal_id == Strip(arg)
             snaps == snapshot_files([i \in 1..Len(snapshot_dir) |-> snapshot_dir[order[i]]])
             hits == CollectHits(snaps, animal_id)
         IN \E args \in HistoryArgs, seed \in HashSeeds, output \in outputs :
              IF \/ snapshot_files_raises(snapshot_dir)
                 \/ \E i \in 1..Len(snaps) : LoadRecordsRaises(snaps[i].data)
              THEN /\ h_out' = [format |-> "traceback"]
                   /\ snapshot_dir' = snapshot_dir
              ELSE /\ h_out' = [format |-> args.format,
                                text |-> IF args.format = "json"
                                         THEN render_json(animal_id, hits, seed)
                                         ELSE render_md(animal_id, hits, args.show_bio, seed)]
                   /\ snapshot_dir' = write_text(snapshot_dir, output, h_out'.text)
  /\ UNCHANGED <<old_file, new_file, missing, now, runs, c_exit, enrichment, fetching, reporting>>

\* main of animal_history.py, the history printed
HistoryMain == HistoryMainTo({Stdout})

\* main of animal_history.py, with every --output
HistoryMainOutput == HistoryMainTo(Outputs)

\* JSON values, none of them an object, met as elements of a snapshot array
NonObjects == {PyStr(<<"x">>), PyNone, PyInt(5), PyList(<<>>)}

\* the name of the animal changed
RenameAlts == <<<<<<"name", Str(<<"M">>)>>>>>>

\* the contents of a snapshot file of the animal 7: well formed, with an
\* element that is no object before or behind the record, no JSON at all,
\* or one JSON object in place of the array
FaultyFiles ==
  {PyList(f) : f \in FileVariants(<<<<"7">>>>, RenameAlts)}
    \cup {PyList(<<x>> \o RosterFile(<<<<"7">>>>)) : x \in NonObjects}
    \cup {PyList(RosterFile(<<<<"7">>>>) \o <<x>>) : x \in NonObjects}
    \cup {NotJson, PyDict(BaseRec(<<"7">>))}

Paths == {"old_path", "new_path", "snapshot_dir"}

\* two files of one directory, one or both damaged, and paths that may not
\* exist; the directory lists the files that exist
InitFaults ==
  /\ \E o \in FaultyFiles, n \in FaultyFiles, m \in SUBSET Paths :
       /\ old_file = o
       /\ new_file = n
       /\ missing = m
       /\ snapshot_dir =
            (IF "old_path" \in m \/ "snapshot_dir" \in m THEN <<>> ELSE <<SnapFile("", 1, o)>>)
              \o (IF "new_path" \in m \/ "snapshot_dir" \in m THEN <<>> ELSE <<SnapFile("", 2, n)>>)
  /\ now = 0
  /\ runs = <<>>
  /\ c_exit = NotRun
  /\ h_out = NoOutput
  /\ outcomes = <<>>
  /\ x_out = <<>>
  /\ NoSearch
  /\ NoFetch
  /\ NoReport

MaxRows == 2     \* rows of the outcomes table

\* the outcome types of the table: two types, and a value that is missing
OutcomeTypes == {PyStr(<<"A">>), PyStr(<<"T">>), NaN}

\* the identities as the outcomes table writes them
OutcomeIds == {<<"7">>, <<" ", "7">>, <<"a", "8">>, <<"A", "8">>}

OutcomeRows == {OutcomeRow(PyStr(id), t) : id \in OutcomeIds, t \in OutcomeTypes}

\* the old and the new snapshot of a diff: <<ids of old, ids of new>>
RemovalShapes ==
  {<<<<>>, <<>>>>,
   <<<<<<"7">>>>, <<>>>>,
   <<<<<<"7">>>>, <<<<"7">>>>>>,
   <<<<<<" ", "7">>>>, <<>>>>,
   <<<<<<"a", "8">>>>, <<>>>>,
   <<<<<<"7">>, <<"a", "8">>>>, <<>>>>,
   <<<<<<"7">>, <<"a", "8">>>>, <<<<"7">>>>>>}

\* two snapshot files and an outcomes table
InitCrosscheck ==
  /\ \E sh \in RemovalShapes :
       /\ old_file = PyList(RosterFile(sh[1]))
       /\ new_file = PyList(RosterFile(sh[2]))
       /\ snapshot_dir = MakeDir(<<1, 2>>, <<RosterFile(sh[1]), RosterFile(sh[2])>>)
  /\ outcomes \in SeqsUpTo(OutcomeRows, MaxRows)
  /\ missing = {}
  /\ now = 0
  /\ runs = <<>>
  /\ c_exit = NotRun
  /\ h_out = NoOutput
  /\ x_out = <<>>
  /\ NoSearch
  /\ NoFetch
  /\ NoReport

\* attach_outcome_status applied to the diff the compare command has made
AttachOutcomeStatus ==
  /\ runs # <<>>
  /\ \E seed \in HashSeeds :
       x_out' = <<attach_outcome_status(runs[Len(runs)], outcomes, seed)>>
  /\ UNCHANGED <<inputs, now, runs, c_exit, h_out, outcomes, diffs, diff_path,
                 fetching, reporting>>

\* the crosscheck command run again on the diff it has written back, the
\* outcomes table the same
AttachOutcomeStatusAgain ==
  /\ Len(x_out) = 1
  /\ \E seed \in HashSeeds :
       x_out' = Append(x_out, attach_outcome_status(x_out[1], outcomes, seed))
  /\ UNCHANGED <<inputs, now, runs, c_exit, h_out, outcomes, diffs, diff_path,
                 fetching, reporting>>

MaxItems == 2    \* items of the pet list

Digits == <<"1", "2", "3", "4", "5", "6", "7", "8", "9">>

\* the organization_pet of the list item at place i: in a kennel, in
\* foster care, or in neither
ListItem(i, place) ==
  [uuid |-> Str(<<"u", Digits[i]>>),
   code |-> Str(<<Digits[i]>>),
   name |-> Str(<<"R">>),
   specie_name |-> Str(<<"d">>),
   sex_key |-> Str(<<"m">>),
   age_key |-> Str(<<"a">>),
   size_key |-> Str(<<"s">>),
   breed_primary_name |-> Str(<<"b">>),
   status_key |-> Str(<<"a">>),
   foster |-> PyBool(place = "foster"),
   kennel_number |-> IF place = "kennel" THEN Str(<<"A">>) ELSE PyNone,
   picture |-> Str(<<"p">>),
   description |-> Str(<<"l">>)]

Places == {"kennel", "foster", "neither"}

\* the details of an item: with a description and a characteristic, or
\* with no description, an entry that is no characteristic and a
\* characteristic that has no name
Details ==
  {[description |-> Str(<<"a", " ", "b">>),
    pet_characteristics |->
      PyList(<<PyDict([key |-> Str(<<"f">>), name |-> Str(<<"F">>)])>>)],
   [description |-> Str(<<>>),
    pet_characteristics |->
      PyList(<<PyNone, PyDict([key |-> Str(<<"s">>), name |-> PyNone])>>)]}

\* the snapshot command has the pet list and has submitted one
\* build_record per item
InitFetch ==
  /\ \E n \in 0..MaxItems :
       /\ \E p \in [1..n -> Places] : list_items = [i \in 1..n |-> ListItem(i, p[i])]
       /\ details \in [1..n -> Details]
       /\ futures = [i \in 1..n |-> <<"running">>]
       /\ records = [i \in 1..n |-> PyNone]
  /\ completed = <<>>
  /\ yielded = <<>>
  /\ f_pc = "collecting"
  /\ f_file = <<>>
  /\ old_file = PyList(<<>>)
  /\ new_file = PyList(<<>>)
  /\ missing = {}
  /\ snapshot_dir = <<>>
  /\ now = 0
  /\ runs = <<>>
  /\ c_exit = NotRun
  /\ h_out = NoOutput
  /\ outcomes = <<>>
  /\ x_out = <<>>
  /\ NoSearch
  /\ NoReport

others == <<inputs, now, runs, c_exit, h_out, enrichment, reporting>>

\* a worker ends build_record(idx, item): fetch_detail returned and the
\* future holds (idx, record), or fetch_detail raised and the future holds
\* the exception
BuildRecord ==
  /\ \E idx \in DOMAIN futures :
       /\ futures[idx] = <<"running">>
       /\ \E ok \in BOOLEAN :
            futures' = [futures EXCEPT ![idx] =
                          IF ok THEN <<"done", idx, normalize_record(list_items[idx], details[idx])>>
                          ELSE <<"failed">>]
       /\ completed' = Append(completed, idx)
  /\ UNCHANGED <<list_items, details, yielded, records, f_pc, f_file, others>>

\* one turn of `for future in as_completed(futures)`: future.result()
\* gives (idx, record), stored at records[idx], or raises what the worker
\* raised, which leaves the loop for the end of the with block
Collect ==
  /\ f_pc = "collecting"
  /\ completed # <<>>
  /\ LET future == futures[Head(completed)]
     IN IF future[1] = "done"
        THEN /\ records' = store(records, future[2], future[3], Len(yielded) + 1)
             /\ f_pc' = f_pc
        ELSE /\ f_pc' = "shutdown"
             /\ records' = records
  /\ yielded' = Append(yielded, Head(completed))
  /\ completed' = Tail(completed)
  /\ UNCHANGED <<list_items, details, futures, f_file, others>>

\* the executor's exit, left with an exception, waits for the workers
\* that still run; main ends with the exception
Raise ==
  /\ f_pc = "shutdown"
  /\ \A idx \in DOMAIN futures : futures[idx] # <<"running">>
  /\ f_pc' = "raised"
  /\ UNCHANGED <<list_items, details, futures, completed, yielded, records, f_file, others>>

\* as_completed has yielded every future: json.dump(records, f)
WriteSnapshot ==
  /\ f_pc = "collecting"
  /\ Len(yielded) = Len(futures)
  /\ f_file' = <<records>>
  /\ f_pc' = "written"
  /\ UNCHANGED <<list_items, details, futures, completed, yielded, records, others>>

LongBioLen == 500   \* characters of a long bio

\* a bio of n characters
LongBio(n) == Str([i \in 1..n |-> "a"])

\* the field values of the records given to the consumers of the diff
ReportAlts ==
  <<
   <<<<"name", Str(<<"M">>)>>>>,
   <<<<"location", Str(<<"K", "B">>)>>>>,
   <<<<"foster", PyBool(TRUE)>>>>,
   <<<<"foster", PyNone>>>>,
   <<<<"characteristic_keys", PyList(<<>>)>>>>,
   <<<<"characteristic_keys", PyList(<<Str(<<"s">>)>>)>>>>,
   <<<<"description_html", PyNone>>>>,
   <<<<"description_html", Str(<<" ", "\n">>)>>>>,
   <<<<"description_html", Str(<<"a", " ", " ", "b">>)>>>>,
   <<<<"description_html", Str(<<"a", " ", "c">>)>>>>,
   <<<<"description_html", LongBio(LongBioLen)>>>>,
   <<<<"description_html", LongBio(LongBioLen + 1)>>>>
  >>

\* the shapes <<ids of old, ids of new>> of the files diffed for the consumers
ReportShapes ==
  {<<<<<<"7">>>>, <<<<"7">>>>>>,
   <<<<<<"7">>, <<"8">>>>, <<<<"8">>, <<"7">>>>>>,
   <<<<<<"7">>>>, <<<<"8">>>>>>}

\* two snapshot files, to be diffed for the email and the report
InitReport ==
  /\ \E sh \in ReportShapes :
       \E o \in FileVariants(sh[1], ReportAlts), n \in FileVariants(sh[2], ReportAlts) :
         /\ old_file = PyList(o)
         /\ new_file = PyList(n)
         /\ snapshot_dir = MakeDir(<<1, 2>>, <<o, n>>)
  /\ missing = {}
  /\ now = 0
  /\ runs = <<>>
  /\ c_exit = NotRun
  /\ h_out = NoOutput
  /\ outcomes = <<>>
  /\ x_out = <<>>
  /\ NoSearch
  /\ NoFetch
  /\ NoReport

\* classify_changes on the diff artifact written last
ClassifyChanges ==
  /\ runs # <<>>
  /\ mail = <<>>
  /\ mail' = <<classify_changes(runs[Len(runs)])>>
  /\ UNCHANGED <<inputs, now, runs, c_exit, h_out, enrichment, fetching, report, bio_in, bio_out>>

\* make_markdown_report on the diff artifact written last
MakeMarkdownReport ==
  /\ runs # <<>>
  /\ report = <<>>
  /\ report' = <<make_markdown_report(runs[Len(runs)])>>
  /\ UNCHANGED <<inputs, now, runs, c_exit, h_out, enrichment, fetching, mail, bio_in, bio_out>>

\* the field values of the records given to both the compare and the
\* history command
SubdiffAlts ==
  <<
   <<<<"characteristic_keys", PyList(<<>>)>>>>,
   <<<<"characteristic_keys", PyNone>>>>,
   <<<<"characteristic_keys", PyList(<<Str(<<"s">>), Str(<<"f">>)>>)>>>>,
   <<<<"description_html", PyNone>>>>,
   <<<<"description_html", Str(<<" ", "a", " ", "\n", "b", " ">>)>>>>,
   <<<<"description_html", Str(<<"a", " ", "c">>)>>>>,
   <<<<"animal_id", Str(<<" ", "7">>)>>>>
  >>

\* two snapshots of the animal 7, the files of one directory
InitSubdiff ==
  /\ \E o \in FileVariants(<<<<"7">>>>, SubdiffAlts), n \in FileVariants(<<<<"7">>>>, SubdiffAlts) :
       /\ old_file = PyList(o)
       /\ new_file = PyList(n)
       /\ snapshot_dir = MakeDir(<<1, 2>>, <<o, n>>)
  /\ missing = {}
  /\ now = 0
  /\ runs = <<>>
  /\ c_exit = NotRun
  /\ h_out = NoOutput
  /\ outcomes = <<>>
  /\ x_out = <<>>
  /\ NoSearch
  /\ NoFetch
  /\ NoReport

MaxStamp == 4    \* timestamps of the snapshots that are compared

\* the diffs the compare command can have left: of an older and a newer
\* snapshot, next to each other or not
DiffPairs == {d \in (1..MaxStamp) \X (1..MaxStamp) : d[1] < d[2]}

\* a directory with any of these diffs
InitLatest ==
  /\ diffs \in SUBSET DiffPairs
  /\ diff_path = NotSearched
  /\ old_file = PyList(<<>>)
  /\ new_file = PyList(<<>>)
  /\ snapshot_dir = <<>>
  /\ missing = {}
  /\ now = 0
  /\ runs = <<>>
  /\ c_exit = NotRun
  /\ h_out = NoOutput
  /\ outcomes = <<>>
  /\ x_out = <<>>
  /\ NoFetch
  /\ NoReport

\* find_latest_diff() of the crosscheck command
FindLatestDiff ==
  /\ diff_path = NotSearched
  /\ diff_path' = find_latest_diff(diffs)
  /\ UNCHANGED <<inputs, now, runs, c_exit, h_out, outcomes, x_out, diffs,
                 fetching, reporting>>

MaxNames == 2    \* files of the directory whose names are looked at

\* the names of the *.json files of a directory: a snapshot's name or a
\* copy's, a diff artifact's, latest_diff.json, each with no timestamp, with
\* digits that are no date, or with one of two timestamps
FileNames ==
  {[prefix |-> p, stamp |-> st] : p \in {"", "copy_", "diff_", "latest_diff"}, st \in {-1, 0, 1, 2}}

\* a directory of files of any names, each with a record of the animal 7
InitDiscovery ==
  /\ \E k \in 0..MaxNames :
       \E names \in [1..k -> FileNames] :
         /\ \A i, j \in 1..k : names[i] = names[j] => i = j
         /\ snapshot_dir = [i \in 1..k |-> [name |-> names[i],
                                             data |-> PyList(RosterFile(<<<<"7">>>>))]]
  /\ old_file = PyList(<<>>)
  /\ new_file = PyList(<<>>)
  /\ missing = {}
  /\ now = 0
  /\ runs = <<>>
  /\ c_exit = NotRun
  /\ h_out = NoOutput
  /\ outcomes = <<>>
  /\ x_out = <<>>
  /\ NoSearch
  /\ NoFetch
  /\ NoReport

MaxBio == 3      \* characters of a bio

\* the bios: None and the strings of a, b and blanks
Bios == {PyNone} \cup {PyStr(t) : t \in SeqsUpTo({"a", "b", " "}, MaxBio)}

\* two bios are given
InitBio ==
  /\ bio_in \in Bios \X Bios
  /\ bio_out = NotComputed
  /\ mail = <<>>
  /\ report = <<>>
  /\ old_file = PyList(<<>>)
  /\ new_file = PyList(<<>>)
  /\ missing = {}
  /\ snapshot_dir = <<>>
  /\ now = 0
  /\ runs = <<>>
  /\ c_exit = NotRun
  /\ h_out = NoOutput
  /\ outcomes = <<>>
  /\ x_out = <<>>
  /\ NoSearch
  /\ NoFetch

\* compute_bio_delta and summarize_bio_change are called on the two bios,
\* one way or the other
ComputeBioDelta ==
  /\ \E way \in {"xy", "yx"} :
       /\ bio_out[way] = <<>>
       /\ LET old_desc == IF way = "xy" THEN bio_in[1] ELSE bio_in[2]
              new_desc == IF way = "xy" THEN bio_in[2] ELSE bio_in[1]
          IN bio_out' = [bio_out EXCEPT ![way] =
                           <<compute_bio_delta(old_desc, new_desc),
                             summarize_bio_change(old_desc, new_desc)>>]
  /\ UNCHANGED <<inputs, now, runs, c_exit, h_out, enrichment, fetching, mail, report, bio_in>>

Next == CompareMain

Spec == Init /\ [][Next]_vars

NextHistory == HistoryMain

SpecHistory == InitHistory /\ [][NextHistory]_vars

\* one run of the compare command on two files of the directory, and the
\* history command on the directory
NextPair == (runs = <<>> /\ CompareMain) \/ HistoryMain

SpecPair == Init /\ [][NextPair]_vars

\* one run of the compare command, and the enrichment of its diff
NextCrosscheck == (runs = <<>> /\ CompareMain) \/ AttachOutcomeStatus

SpecCrosscheck == InitCrosscheck /\ [][NextCrosscheck]_vars

\* the two commands on damaged or missing inputs
NextFaults == CompareMain \/ HistoryMain

SpecFaults == InitFaults /\ [][NextFaults]_vars

\* the history command, its output printed or written to a file
NextStorage == HistoryMainOutput

SpecStorage == InitFaults /\ [][NextStorage]_vars

\* the two snapshots diffed, and the history of the animal over them
NextSubdiff == (runs = <<>> /\ CompareMain) \/ HistoryMain

SpecSubdiff == InitSubdiff /\ [][NextSubdiff]_vars

\* the compare command, then the crosscheck command on its diff, twice
NextCrosscheckTwice ==
  \/ (runs = <<>> /\ CompareMain)
  \/ (x_out = <<>> /\ AttachOutcomeStatus)
  \/ AttachOutcomeStatusAgain

SpecCrosscheckTwice == InitCrosscheck /\ [][NextCrosscheckTwice]_vars

\* the search for the latest diff
NextLatest == FindLatestDiff

SpecLatest == InitLatest /\ [][NextLatest]_vars

\* the history command on a directory of files of any names
NextDiscovery == HistoryMain

SpecDiscovery == InitDiscovery /\ [][NextDiscovery]_vars

\* one diff and its consumers
NextReport == (runs = <<>> /\ CompareMain) \/ ClassifyChanges \/ MakeMarkdownReport

SpecReport == InitReport /\ [][NextReport]_vars

\* the distances of two bios
NextBio == ComputeBioDelta

SpecBio == InitBio /\ [][NextBio]_vars

\* one run of the snapshot command
NextFetch == BuildRecord \/ Collect \/ Raise \/ WriteSnapshot

SpecFetch == InitFetch /\ [][NextFetch]_vars

\* ------------------------------------------------------------------------
\* Properties of the compare command
\* ------------------------------------------------------------------------
\* the identities a snapshot file holds: the animal_id values that are set
IdSetOf(file) ==
  {v \in {Get(file[2][i][2], "animal_id") : i \in 1..Len(file[2])} : Truthy(v)}

EntryIds(entries) == {entries[i].animal_id : i \in 1..Len(entries)}

ChangedIds(d) == {d.animals_changed[i].uuid : i \in 1..Len(d.animals_changed)}

\* C1: every identity of old or new is in exactly one of added (new only),
\* removed (old only) and common (both; reported as changed or not); added,
\* removed and changed are pairwise disjoint.
C1_IdentityPartition ==
  \A r \in 1..Len(runs) :
    LET d == runs[r]
        O == IdSetOf(old_file)
        N == IdSetOf(new_file)
        A == EntryIds(d.animals_added)
        R == EntryIds(d.animals_removed)
        C == ChangedIds(d)
    IN /\ A = N \ O
       /\ R = O \ N
       /\ C \subseteq O \cap N
       /\ A \cap R = {}
       /\ C \cap (A \cup R) = {}
       /\ Len(d.animals_added) = Cardinality(A)
       /\ Len(d.animals_removed) = Cardinality(R)
       /\ Len(d.animals_changed) = Cardinality(C)
       /\ \A id \in O \cup N :
            Cardinality({k \in {"added", "removed", "common"} :
                           \/ k = "added" /\ id \in A
                           \/ k = "removed" /\ id \in R
                           \/ k = "common" /\ id \in O \cap N}) = 1

\* a run that reports an added and a removed identity
C1_Witness ==
  \E r \in 1..Len(runs) :
    runs[r].animals_added # <<>> /\ runs[r].animals_removed # <<>>

\* C2: an entry of animals_changed has a trait added or removed, or bios that
\* differ once normalized, or a different (location, foster) pair; records
\* equal in these dimensions give no entry.
C2_ChangedSetMinimal ==
  \A r \in 1..Len(runs) :
    /\ \A i \in 1..Len(runs[r].animals_changed) :
         LET e == runs[r].animals_changed[i]
         IN \/ e.characteristics_added # <<>>
            \/ e.characteristics_removed # <<>>
            \/ normalize_html(e.description_old) # normalize_html(e.description_new)
            \/ <<e.location_old, e.foster_old>> # <<e.location_new, e.foster_new>>
    /\ \A id \in IdSetOf(old_file) \cap IdSetOf(new_file) :
         LET old == load_snapshot(old_file[2])[id]
             new == load_snapshot(new_file[2])[id]
         IN (/\ KeySet(old) = KeySet(new)
             /\ normalize_html(Get(old, "description_html"))
                  = normalize_html(Get(new, "description_html"))
             /\ Get(old, "location") = Get(new, "location")
             /\ Truthy(Get(old, "foster")) = Truthy(Get(new, "foster")))
            => id \notin ChangedIds(runs[r])

\* a run that reports a changed identity whose raw bios differ as well
C2_Witness ==
  \E r \in 1..Len(runs) : \E i \in 1..Len(runs[r].animals_changed) :
    LET e == runs[r].animals_changed[i]
    IN e.description_old # e.description_new /\ ~e.description_changed

tracked_scalars ==
  {"name", "species", "sex", "age_key", "size_key",
   "breed_primary_name", "status", "kennel_number"}

\* C3: a common identity is in animals_changed if and only if one of the
\* four sub-diffs (scalar, trait, bio, location) is non-empty; a difference
\* in a tracked scalar field alone makes it changed.
C3_ChangedIffAnySubDiff ==
  \A r \in 1..Len(runs) :
    \A id \in IdSetOf(old_file) \cap IdSetOf(new_file) :
      LET old == load_snapshot(old_file[2])[id]
          new == load_snapshot(new_file[2])[id]
      IN id \in ChangedIds(runs[r])
           <=> \/ \E k \in tracked_scalars : Get(old, k) # Get(new, k)
               \/ KeySet(old) # KeySet(new)
               \/ normalize_html(Get(old, "description_html"))
                    # normalize_html(Get(new, "description_html"))
               \/ Get(old, "location") # Get(new, "location")
               \/ Truthy(Get(old, "foster")) # Truthy(Get(new, "foster"))

WithoutGeneratedAt(d) == [k \in DOMAIN d \ {"generated_at"} |-> d[k]]

AskedId == <<"7">>

\* a file of the directory holds a record of the identity asked for
Holds(f) ==
  \E i \in 1..Len(f.data[2]) :
    /\ IsDict(f.data[2][i])
    /\ Strip(as_str(Get(f.data[2][i][2], "animal_id"))) = AskedId

PresentFiles == {i \in 1..Len(snapshot_dir) : Holds(snapshot_dir[i])}

\* the first record of the identity in a file
FirstRecordOf(f) ==
  LET m == {i \in 1..Len(f.data[2]) :
              /\ IsDict(f.data[2][i])
              /\ Strip(as_str(Get(f.data[2][i][2], "animal_id"))) = AskedId}
  IN f.data[2][CHOOSE i \in m : \A j \in m : i <= j][2]

JsonOut == h_out.format = "json"

\* C5: the dt values of consecutive entries of history[] strictly increase.
C5_HistoryStrictlyIncreasing ==
  JsonOut =>
    \A i \in 1..(Len(h_out.text.history) - 1) :
      h_out.text.history[i].dt < h_out.text.history[i + 1].dt

\* C6: the chain has one entry per snapshot that holds the identity, in
\* timestamp order, none for the others; the first entry has
\* changes_from_prev = null, a later one the diff against the entry before.
C6_ChainOfPresentSnapshots ==
  JsonOut =>
    LET H == h_out.text.history
    IN /\ Len(H) = Cardinality(PresentFiles)
       /\ h_out.text.snapshots_found = Cardinality(PresentFiles)
       /\ {H[i].snapshot : i \in 1..Len(H)} = {snapshot_dir[i].name : i \in PresentFiles}
       /\ \A i \in 1..Len(H) : H[i].dt = H[i].snapshot.stamp
       /\ \A i \in 1..(Len(H) - 1) : H[i].dt <= H[i + 1].dt
       /\ \A i \in 1..Len(H) : \E k \in PresentFiles :
            /\ snapshot_dir[k].name = H[i].snapshot
            /\ H[i].record = pick_fields(FirstRecordOf(snapshot_dir[k]))
       /\ \A i \in 1..Len(H) :
            H[i].changes_from_prev =
              IF i = 1 THEN PyNone
              ELSE OrNone(diff_records(H[i - 1].record, H[i].record, 0))

\* the identity is in the first and the third snapshot and not in the
\* second: two entries, the later one diffed against the earlier one
C6_Witness ==
  /\ JsonOut
  /\ Len(snapshot_dir) = 3
  /\ PresentFiles = {1, 3}
  /\ snapshot_dir[2].data[2] # <<>>
  /\ snapshot_dir[1].name.stamp < snapshot_dir[2].name.stamp
  /\ snapshot_dir[2].name.stamp < snapshot_dir[3].name.stamp
  /\ Len(h_out.text.history) = 2
  /\ h_out.text.history[2].changes_from_prev # PyNone

RECURSIVE CollapseRuns(_)
\* every run of whitespace of s replaced by one space
CollapseRuns(s) ==
  IF s = <<>> THEN <<>>
  ELSE IF IsSpace(s[1]) THEN <<" ">> \o CollapseRuns(LstripFrom(s))
  ELSE <<s[1]>> \o CollapseRuns(Tail(s))

\* a bio with its whitespace runs collapsed, trimmed; a missing bio is empty
CollapseTrim(v) == IF IsStr(v) THEN Strip(CollapseRuns(v[2])) ELSE <<>>

\* the entries of the chain with a bio
WithBio(H) == {i \in 1..Len(H) : CollapseTrim(H[i].record.description_html) # <<>>}

\* C7: the restore pack's bio is the timestamp and the normalized bio of the
\* last hit with a non-empty normalized bio; it is unset only when no hit
\* has one.
C7_LatestNonemptyBio ==
  (JsonOut /\ h_out.text.history # <<>>) =>
    LET H == h_out.text.history
        pack == h_out.text.restore_pack
    IN IF WithBio(H) = {}
       THEN "latest_nonempty_bio" \notin DOMAIN pack
       ELSE LET i == CHOOSE k \in WithBio(H) : \A j \in WithBio(H) : j <= k
            IN /\ "latest_nonempty_bio" \in DOMAIN pack
               /\ pack["latest_nonempty_bio"] =
                    [dt |-> H[i].dt, text |-> CollapseTrim(H[i].record.description_html)]

\* three hits, the bio empty in the first and the last one: the bio of the
\* second is returned
C7_Witness ==
  /\ JsonOut
  /\ Len(h_out.text.history) = 3
  /\ WithBio(h_out.text.history) = {2}
  /\ "latest_nonempty_bio" \in DOMAIN h_out.text.restore_pack
  /\ h_out.text.restore_pack["latest_nonempty_bio"].dt = h_out.text.history[2].dt

\* the entries of the chain with a trait key or a trait name
WithTraits(H) ==
  {i \in 1..Len(H) : \/ H[i].record.characteristic_keys[2] # <<>>
                     \/ H[i].record.characteristic_names[2] # <<>>}

\* C8: the restore pack's traits are those of the last hit whose trait keys
\* or trait names are non-empty, whichever hit gives the bio; they are unset
\* only when every hit has both lists empty.
C8_LatestNonemptyTraits ==
  (JsonOut /\ h_out.text.history # <<>>) =>
    LET H == h_out.text.history
        pack == h_out.text.restore_pack
    IN IF WithTraits(H) = {}
       THEN "latest_nonempty_traits" \notin DOMAIN pack
       ELSE LET i == CHOOSE k \in WithTraits(H) : \A j \in WithTraits(H) : j <= k
                keys == H[i].record.characteristic_keys[2]
                names == H[i].record.characteristic_names[2]
            IN /\ "latest_nonempty_traits" \in DOMAIN pack
               /\ pack["latest_nonempty_traits"] =
                    [dt |-> H[i].dt,
                     characteristic_keys |-> [n \in 1..Len(keys) |-> keys[n][2]],
                     characteristic_names |-> [n \in 1..Len(names) |-> names[n][2]]]

\* three hits, the last with both lists empty, the second with trait names
\* and no trait keys: the second gives the traits, the last gives the bio
C8_Witness ==
  /\ JsonOut
  /\ Len(h_out.text.history) = 3
  /\ LET H == h_out.text.history
         pack == h_out.text.restore_pack
     IN /\ WithTraits(H) = {1, 2}
        /\ H[2].record.characteristic_keys[2] = <<>>
        /\ DOMAIN pack = {"latest_nonempty_bio", "latest_nonempty_traits"}
        /\ pack["latest_nonempty_traits"].dt = H[2].dt
        /\ pack["latest_nonempty_traits"].characteristic_names # <<>>
        /\ pack["latest_nonempty_bio"].dt = H[3].dt
        /\ H[2].dt < H[3].dt

\* C9: when no snapshot holds the identity the command ends without error,
\* with snapshots_found = 0, history = [] and an empty restore_pack, or with
\* the markdown text that no snapshot contained the identity.
C9_EmptyChain ==
  (PresentFiles = {} /\ h_out # NoOutput
     /\ \A i \in 1..Len(snapshot_dir) : IsList(snapshot_dir[i].data)) =>
    /\ h_out.format \in {"json", "md"}
    /\ h_out.format = "json" =>
         /\ h_out.text.animal_id = AskedId
         /\ h_out.text.snapshots_found = 0
         /\ h_out.text.history = <<>>
         /\ DOMAIN h_out.text.restore_pack = {}
    /\ h_out.format = "md" =>
         h_out.text = [title |-> <<"No snapshots contained animal_id", AskedId>>]

\* the directory has snapshots of other animals only, and the JSON is out
C9_Witness ==
  /\ PresentFiles = {}
  /\ \E i \in 1..Len(snapshot_dir) : snapshot_dir[i].data[2] # <<>>
  /\ JsonOut
  /\ h_out.text.snapshots_found = 0

\* ------------------------------------------------------------------------
\* Properties of both commands
\* ------------------------------------------------------------------------
\* C10: bios that are equal once every whitespace run is one space and the
\* ends are trimmed, a missing bio being empty, give no bio change:
\* description_changed is false and diff_records has no "bio" key.
C10_EqualBiosNoChange ==
  /\ \A r \in 1..Len(runs) : \A i \in 1..Len(runs[r].animals_changed) :
       LET e == runs[r].animals_changed[i]
       IN CollapseTrim(e.description_old) = CollapseTrim(e.description_new)
            => ~e.description_changed
  /\ JsonOut =>
       \A i \in 2..Len(h_out.text.history) :
         LET H == h_out.text.history
         IN CollapseTrim(H[i - 1].record.description_html)
              = CollapseTrim(H[i].record.description_html)
            => \/ H[i].changes_from_prev = PyNone
               \/ "bio" \notin DOMAIN H[i].changes_from_prev[2]

\* both commands have met two records whose bios differ in whitespace only
C10_Witness ==
  /\ \E r \in 1..Len(runs) : \E i \in 1..Len(runs[r].animals_changed) :
       LET e == runs[r].animals_changed[i]
       IN /\ e.description_old # e.description_new
          /\ CollapseTrim(e.description_old) = CollapseTrim(e.description_new)
  /\ JsonOut
  /\ Len(h_out.text.history) = 2
  /\ LET H == h_out.text.history
     IN /\ H[1].record.description_html # H[2].record.description_html
        /\ CollapseTrim(H[1].record.description_html)
             = CollapseTrim(H[2].record.description_html)
        /\ H[2].changes_from_prev # PyNone

\* ------------------------------------------------------------------------
\* Trait diff and summary of the compare command
\* ------------------------------------------------------------------------
\* each element of the list of strings q is below the next
StrictlyAscending(q) == \A i \in 1..(Len(q) - 1) : PyLess(q[i], q[i + 1])

\* the entries of animals_changed of the artifact d for the identity id
EntriesOf(d, id) == {i \in 1..Len(d.animals_changed) : d.animals_changed[i].uuid = id}

\* C11: for an identity of both files, characteristics_added lists the keys
\* of new that old lacks and characteristics_removed the keys of old that
\* new lacks, each once and in ascending order; the lists share no key; a
\* key set that differs gives an entry, so keys reordered or repeated alone
\* give no trait change.
C11_TraitDiffIsSetDiff ==
  \A r \in 1..Len(runs) :
    \A id \in IdSetOf(old_file) \cap IdSetOf(new_file) :
      LET old == load_snapshot(old_file[2])[id]
          new == load_snapshot(new_file[2])[id]
          d == runs[r]
      IN /\ KeySet(old) # KeySet(new) => EntriesOf(d, id) # {}
         /\ \A i \in EntriesOf(d, id) :
              LET e == d.animals_changed[i]
              IN /\ Range(e.characteristics_added) = KeySet(new) \ KeySet(old)
                 /\ Range(e.characteristics_removed) = KeySet(old) \ KeySet(new)
                 /\ StrictlyAscending(e.characteristics_added)
                 /\ StrictlyAscending(e.characteristics_removed)
                 /\ Range(e.characteristics_added) \cap Range(e.characteristics_removed) = {}

\* traits [f] in old and [f, s] in new: s is added, nothing is removed, and
\* no animal is added or removed
C11_Witness ==
  \E r \in 1..Len(runs) : \E i \in 1..Len(runs[r].animals_changed) :
    LET e == runs[r].animals_changed[i]
        old == load_snapshot(old_file[2])[e.uuid]
        new == load_snapshot(new_file[2])[e.uuid]
    IN /\ Get(old, "characteristic_keys") = PyList(<<Str(<<"f">>)>>)
       /\ Get(new, "characteristic_keys") = PyList(<<Str(<<"f">>), Str(<<"s">>)>>)
       /\ e.characteristics_added = <<Str(<<"s">>)>>
       /\ e.characteristics_removed = <<>>
       /\ runs[r].animals_added = <<>>
       /\ runs[r].animals_removed = <<>>

\* C12: summary.total_old and summary.total_new count the distinct
\* identities of the old and of the new file; summary.animals_added,
\* animals_removed and animals_changed are the lengths of the three lists.
C12_SummaryCounts ==
  \A r \in 1..Len(runs) :
    LET d == runs[r]
    IN /\ d.summary.total_old = Cardinality(IdSetOf(old_file))
       /\ d.summary.total_new = Cardinality(IdSetOf(new_file))
       /\ d.summary.animals_added = Len(d.animals_added)
       /\ d.summary.animals_removed = Len(d.animals_removed)
       /\ d.summary.animals_changed = Len(d.animals_changed)

\* the only record of old is gone from new: one removed entry, counted once
C12_Witness ==
  /\ Len(old_file[2]) = 1
  /\ new_file[2] = <<>>
  /\ \E r \in 1..Len(runs) :
       /\ Len(runs[r].animals_removed) = 1
       /\ runs[r].summary.animals_removed = 1
       /\ runs[r].summary.total_old = 1
       /\ runs[r].summary.total_new = 0

\* ------------------------------------------------------------------------
\* Damaged and missing inputs
\* ------------------------------------------------------------------------
\* the elements of a snapshot array that are objects
ObjectsOf(f) == PyList(SelectSeq(f[2], IsDict))

\* the directory with every array reduced to its objects
CleanDir == [i \in 1..Len(snapshot_dir) |->
               [snapshot_dir[i] EXCEPT !.data = ObjectsOf(@)]]

\* C13: elements of a snapshot array that are no objects are discarded by
\* both loaders: on two existing files that hold arrays the compare command
\* ends well and writes the diff of the objects of the two arrays, and on a
\* directory of arrays the history command puts out the chain of the
\* objects.
C13_NonObjectsDiscarded ==
  /\ (/\ c_exit # NotRun
      /\ missing \cap {"old_path", "new_path"} = {}
      /\ IsList(old_file) /\ IsList(new_file)) =>
       /\ c_exit.status = "ok"
       /\ \A r \in 1..Len(runs) :
            WithoutGeneratedAt(runs[r]) =
              WithoutGeneratedAt(compare_snapshots(ObjectsOf(old_file)[2], ObjectsOf(new_file)[2], 0, 0))
  /\ (/\ h_out # NoOutput
      /\ "snapshot_dir" \notin missing
      /\ \A i \in 1..Len(snapshot_dir) : IsList(snapshot_dir[i].data)) =>
       /\ h_out.format \in {"json", "md"}
       /\ h_out.format = "json" =>
            h_out.text = render_json(AskedId, CollectHits(snapshot_files(CleanDir), AskedId), 0)

\* the files of the directory that hold a JSON array
ReadableDir == SelectSeq(snapshot_dir, LAMBDA f : IsList(f.data))

\* C14: a file of the scanned directory that is no JSON array is skipped:
\* the history command ends well and puts out the chain built from the
\* other files.
C14_CorruptFileSkipped ==
  (h_out # NoOutput /\ "snapshot_dir" \notin missing) =>
    /\ h_out.format \in {"json", "md"}
    /\ h_out.format = "json" =>
         h_out.text = render_json(AskedId, CollectHits(snapshot_files(ReadableDir), AskedId), 0)

\* ------------------------------------------------------------------------
\* Several records of one identity in a snapshot
\* ------------------------------------------------------------------------
\* the last record of the array `file` whose animal_id is id
LastOf(file, id) ==
  LET m == {i \in 1..Len(file[2]) : Get(file[2][i][2], "animal_id") = id}
  IN file[2][CHOOSE i \in m : \A j \in m : j <= i][2]

\* the last record of the identity asked for in a file of the directory
LastRecordOf(f) ==
  LET m == {i \in 1..Len(f.data[2]) :
              /\ IsDict(f.data[2][i])
              /\ Strip(as_str(Get(f.data[2][i][2], "animal_id"))) = AskedId}
  IN f.data[2][CHOOSE i \in m : \A j \in m : j <= i][2]

\* what the differ reports of the last records of the identities
DifferUsesLast ==
  \A r \in 1..Len(runs) :
    LET d == runs[r]
    IN /\ \A i \in 1..Len(d.animals_added) :
            d.animals_added[i] = ProjectEntry(LastOf(new_file, d.animals_added[i].animal_id))
       /\ \A i \in 1..Len(d.animals_removed) :
            d.animals_removed[i] = ProjectEntry(LastOf(old_file, d.animals_removed[i].animal_id))
       /\ \A i \in 1..Len(d.animals_changed) :
            LET e == d.animals_changed[i]
                old == LastOf(old_file, e.uuid)
                new == LastOf(new_file, e.uuid)
            IN /\ e.name = Get(new, "name")
               /\ e.status_old = Get(old, "status") /\ e.status_new = Get(new, "status")
               /\ e.location_old = Get(old, "location") /\ e.location_new = Get(new, "location")
               /\ e.description_old = Get(old, "description_html")
               /\ e.description_new = Get(new, "description_html")

\* C15: of several records of one identity in a snapshot the last one is
\* used, by the differ for its entries and by the history command for the
\* record of the chain; both commands end well.
C15_LastOccurrenceWins ==
  /\ c_exit.status \in {"none", "ok"}
  /\ h_out.format \in {"none", "json", "md"}
  /\ DifferUsesLast
  /\ JsonOut =>
       \A i \in 1..Len(h_out.text.history) :
         \E k \in 1..Len(snapshot_dir) :
           /\ snapshot_dir[k].name = h_out.text.history[i].snapshot
           /\ h_out.text.history[i].record = pick_fields(LastRecordOf(snapshot_dir[k]))

\* ------------------------------------------------------------------------
\* Properties of the outcome enrichment
\* ------------------------------------------------------------------------
\* C16: the artifact attach_outcome_status returns carries
\* removal_outcome_summary_simple, with total_removed the number of removed
\* entries and with_outcome + without_outcome = total_removed, and every
\* removed entry carries outcome_status; so it does when animals_removed is
\* empty.
C16_EnrichedCarriesSummary ==
  x_out # <<>> =>
    LET d == x_out[1]
    IN /\ "removal_outcome_summary_simple" \in DOMAIN d
       /\ d.removal_outcome_summary_simple.total_removed = Len(d.animals_removed)
       /\ d.removal_outcome_summary_simple.with_outcome
            + d.removal_outcome_summary_simple.without_outcome
              = d.removal_outcome_summary_simple.total_removed
       /\ \A i \in 1..Len(d.animals_removed) :
            "outcome_status" \in DOMAIN d.animals_removed[i]

\* an identity trimmed and in lower case
TrimLower(id) == LET t == Strip(id) IN [i \in 1..Len(t) |-> LowerChar(t[i])]

\* the rows of the table whose identity is that of the removed entry e:
\* the same string once the entry's is trimmed
RowsOf(e) ==
  {j \in 1..Len(outcomes) : outcomes[j].animal_id = PyStr(Strip(str(e.animal_id)))}

\* the rows whose identity is that of e only when case and the whitespace
\* around the table's value are ignored
NearRowsOf(e) ==
  {j \in 1..Len(outcomes) : TrimLower(outcomes[j].animal_id[2]) = TrimLower(str(e.animal_id))}
    \ RowsOf(e)

\* the outcome types of a set of rows
TypesOf(rows) == {outcomes[j].outcome_status : j \in rows} \ {NaN}

\* the strings of the set T, each below the next
AscendingSeq(T) ==
  CHOOSE q \in [1..Cardinality(T) -> T] : Range(q) = T /\ StrictlyAscending(q)

\* C17: the outcome_status of a removed entry is null when the table has no
\* outcome type for its identity, the type when it has one, and with
\* several the distinct types in ascending order joined by " / ", whatever
\* the order of the rows.
C17_StatusJoinsSortedTypes ==
  x_out # <<>> =>
    \A i \in 1..Len(x_out[1].animals_removed) :
      LET e == x_out[1].animals_removed[i]
          T == TypesOf(RowsOf(e))
          q == AscendingSeq(T)
      IN NearRowsOf(e) = {} =>
           e.outcome_status =
             CASE Cardinality(T) = 0 -> PyNone
               [] Cardinality(T) = 1 -> q[1]
               [] OTHER -> PyStr(Join(<<" ", "/", " ">>, [n \in 1..Len(q) |-> q[n][2]]))

\* the table lists type T before type A for a removed identity: the entry
\* has "A / T"
C17_Witness ==
  /\ x_out # <<>>
  /\ Len(outcomes) = 2
  /\ outcomes[1].outcome_status = PyStr(<<"T">>)
  /\ outcomes[2].outcome_status = PyStr(<<"A">>)
  /\ \E i \in 1..Len(x_out[1].animals_removed) :
       /\ RowsOf(x_out[1].animals_removed[i]) = {1, 2}
       /\ x_out[1].animals_removed[i].outcome_status = PyStr(<<"A", " ", "/", " ", "T">>)

\* C18: a removed entry is joined to the outcome rows whose identity equals
\* its own once both are trimmed and put in lower case: it has an
\* outcome_status exactly when such a row has an outcome type.
C18_JoinTrimsAndFoldsCase ==
  x_out # <<>> =>
    \A i \in 1..Len(x_out[1].animals_removed) :
      LET e == x_out[1].animals_removed[i]
      IN "outcome_status" \in DOMAIN e
           /\ (e.outcome_status # PyNone
                 <=> TypesOf(RowsOf(e) \cup NearRowsOf(e)) # {})
\* a snapshot named to the compare command that load_snapshot raises on
FailsToLoad == load_snapshot_error(old_file) # "" \/ load_snapshot_error(new_file) # ""

\* C20: a run of the compare command with a path that is no file, or a
\* file that fails to load, and a run of the history command with no
\* snapshot directory, end abnormally with a message and have written no
\* artifact
C20_FailedInputNoArtifact ==
  /\ c_exit # NotRun =>
       /\ {"old_path", "new_path"} \cap missing # {} =>
            /\ c_exit.status = "SystemExit"
            /\ c_exit.message \in {"Old snapshot not found: old_path",
                                    "New snapshot not found: new_path"}
            /\ runs = <<>>
       /\ FailsToLoad =>
            /\ c_exit.status \in {"SystemExit", "traceback"}
            /\ c_exit.message # ""
            /\ runs = <<>>
  /\ h_out # NoOutput /\ "snapshot_dir" \in missing =>
       /\ h_out.format = "SystemExit"
       /\ h_out.text = "Snapshot dir not found: snapshot_dir"

\* the compare command has ended on the new path that is no file, the old
\* file well formed, and the history command on the missing directory
C20_Witness ==
  /\ missing = {"new_path", "snapshot_dir"}
  /\ load_snapshot_error(old_file) = ""
  /\ load_snapshot_error(new_file) = ""
  /\ c_exit.status = "SystemExit"
  /\ h_out # NoOutput

\* ------------------------------------------------------------------------
\* Properties of the snapshot command
\* ------------------------------------------------------------------------
\* C19: the snapshot file is written only when every detail fetch has
\* ended, record i of the file is the normalized record of list item i, no
\* entry of the file is null, and a run in which a detail fetch failed
\* writes no file
C19_SnapshotCompleteInOrder ==
  /\ f_file # <<>> =>
       /\ \A idx \in DOMAIN futures : futures[idx][1] = "done"
       /\ Len(f_file[1]) = Len(list_items)
       /\ \A i \in DOMAIN list_items :
            /\ f_file[1][i] = normalize_record(list_items[i], details[i])
            /\ f_file[1][i] # PyNone
  /\ (\E idx \in DOMAIN futures : futures[idx][1] = "failed") => f_file = <<>>
  /\ f_pc \in {"shutdown", "raised"} => f_file = <<>>

\* the file is written after the fetches ended in the reverse of the list order
C19_Witness ==
  /\ f_file # <<>>
  /\ Len(yielded) >= 2
  /\ \A i \in 1..(Len(yielded) - 1) : yielded[i] > yielded[i + 1]
\* ------------------------------------------------------------------------
\* Properties of the snapshot storage
\* ------------------------------------------------------------------------
\* C21: a run of the history command, whatever its arguments, leaves
\* every file of the snapshot directory with the content it had
C21_HistoryLeavesStorage == [][snapshot_dir' = snapshot_dir]_vars
\* ------------------------------------------------------------------------
\* Properties of the bio distance
\* ------------------------------------------------------------------------
\* C22: the distance from X to Y is the distance from Y to X, for
\* compute_bio_delta and for the delta_pct of summarize_bio_change
C22_BioDeltaSymmetric ==
  (bio_out.xy # <<>> /\ bio_out.yx # <<>>) => bio_out.xy = bio_out.yx

\* both distances of two bios that share some of their characters, in
\* different numbers, are computed
C22_Witness ==
  /\ bio_out.xy # <<>>
  /\ bio_out.yx # <<>>
  /\ bio_out.xy[1] \notin {0, 1000}
  /\ Len(squeeze(bio_in[1])) < Len(squeeze(bio_in[2]))
\* ------------------------------------------------------------------------
\* Properties of the location sub-diff
\* ------------------------------------------------------------------------
\* C23: for an identity of both files, location_changed is true exactly
\* when the labels or the foster flags, as booleans, differ; the type is
\* went_to_foster for false to true, returned_from_foster for true to
\* false, kennel_move for equal flags and different labels, else other,
\* and null exactly when location_changed is false; a location that
\* changed gives an entry.
C23_LocationClassified ==
  \A r \in 1..Len(runs) :
    \A id \in IdSetOf(old_file) \cap IdSetOf(new_file) :
      LET old == load_snapshot(old_file[2])[id]
          new == load_snapshot(new_file[2])[id]
          d == runs[r]
          label_differs == Get(old, "location") # Get(new, "location")
          was == Truthy(Get(old, "foster"))
          is == Truthy(Get(new, "foster"))
      IN /\ (label_differs \/ was # is) => EntriesOf(d, id) # {}
         /\ \A i \in EntriesOf(d, id) :
              LET e == d.animals_changed[i]
              IN /\ e.location_changed = (label_differs \/ was # is)
                 /\ (e.location_change_type = "null") = ~e.location_changed
                 /\ e.location_changed =>
                      e.location_change_type =
                        (IF ~was /\ is THEN "went_to_foster"
                         ELSE IF was /\ ~is THEN "returned_from_foster"
                         ELSE IF label_differs THEN "kennel_move"
                         ELSE "other")

\* an animal that went to foster care from a kennel other than the one
\* its new record names
C23_Witness ==
  \E r \in 1..Len(runs) : \E i \in 1..Len(runs[r].animals_changed) :
    LET e == runs[r].animals_changed[i]
    IN /\ e.location_change_type = "went_to_foster"
       /\ e.location_old # e.location_new
\* ------------------------------------------------------------------------
\* Properties of the consumers of the diff
\* ------------------------------------------------------------------------
\* the dissimilarity of two bios, in tenths of a percent, as a fraction
Dissimilarity(old_desc, new_desc) ==
  delta_of(matcher_ratio(squeeze(old_desc), squeeze(new_desc)))

\* the identities of both files whose bio was edited, both bios with text,
\* by less than 0.1 percent, nothing else of the record changed
NoiseEdits ==
  {id \in IdSetOf(old_file) \cap IdSetOf(new_file) :
     LET old == load_snapshot(old_file[2])[id]
         new == load_snapshot(new_file[2])[id]
         old_bio == Get(old, "description_html")
         new_bio == Get(new, "description_html")
     IN /\ old_bio # new_bio
        /\ squeeze(old_bio) # <<>>
        /\ squeeze(new_bio) # <<>>
        /\ Dissimilarity(old_bio, new_bio)[1] < Dissimilarity(old_bio, new_bio)[2]
        /\ [old EXCEPT !["description_html"] = new_bio] = new}

\* C24: a bio edited by less than 0.1 percent, both bios with text, puts
\* the identity neither into animals_changed nor among the changed bios
\* of the email or of the report
C24_NoiseSuppressed ==
  \A id \in NoiseEdits :
    /\ \A r \in 1..Len(runs) : EntriesOf(runs[r], id) = {}
    /\ mail # <<>> =>
         \A i \in 1..Len(mail[1].bios_changed) : mail[1].bios_changed[i].uuid # id
    /\ report # <<>> =>
         \A i \in 1..Len(report[1].bios_changed) : report[1].bios_changed[i].uuid # id
\* the uuid of each entry of a list
Uuids(entries) == {entries[i].uuid : i \in 1..Len(entries)}

\* the bio classes the email gives the identity id
MailBioClasses(id) ==
  {c \in {"added", "removed", "changed"} :
     \/ c = "added" /\ id \in Uuids(mail[1].bios_added)
     \/ c = "removed" /\ id \in Uuids(mail[1].bios_removed)
     \/ c = "changed" /\ id \in Uuids(mail[1].bios_changed)}

\* C25: when the normalized bios of the two records of an identity
\* differ, diff_records gives the change one class, added for an old bio
\* that is empty, removed for a new one that is, changed for neither, and
\* classify_changes on the diff gives it that class and no other
C25_BioClassesAgree ==
  mail # <<>> =>
    \A id \in IdSetOf(old_file) \cap IdSetOf(new_file) :
      LET old == load_snapshot(old_file[2])[id]
          new == load_snapshot(new_file[2])[id]
          old_norm == normalize_html(Get(old, "description_html"))
          new_norm == normalize_html(Get(new, "description_html"))
          changes == diff_records(pick_fields(old), pick_fields(new), 0)
      IN old_norm # new_norm =>
           /\ "bio" \in DOMAIN changes
           /\ changes["bio"].type =
                (IF old_norm = <<>> THEN "added"
                 ELSE IF new_norm = <<>> THEN "removed" ELSE "changed")
           /\ MailBioClasses(id) = {changes["bio"].type}
\* ------------------------------------------------------------------------
\* Properties of the two sub-diffs
\* ------------------------------------------------------------------------
\* what diff_records gave for the second of two hits, as a function
ChangesOf(h) == IF h.changes_from_prev = PyNone THEN <<>> ELSE h.changes_from_prev[2]

\* the differ and the history agree on the traits and on the bio of the
\* two records the history has found
SameSubDiff(d, H) ==
  LET changes == ChangesOf(H[2])
      E == d.animals_changed
      traits == {i \in 1..Len(E) : has_trait_change(E[i])}
      bios == {i \in 1..Len(E) : E[i].description_changed}
  IN /\ (traits # {}) = ("traits" \in DOMAIN changes)
     /\ \A i \in traits :
          /\ E[i].characteristics_added = changes["traits"].added
          /\ E[i].characteristics_removed = changes["traits"].removed
     /\ (bios # {}) = ("bio" \in DOMAIN changes)

\* C26: for two records the history matches to the identity asked for,
\* the differ reports a trait change exactly when diff_records emits
\* traits, with the same added and removed lists, and description_changed
\* exactly when diff_records emits bio; and the differ has the two records
\* as one identity, none added and none removed
C26_SameSubDiffSameIdentity ==
  (runs # <<>> /\ JsonOut /\ Len(h_out.text.history) = 2) =>
    /\ runs[1].animals_added = <<>>
    /\ runs[1].animals_removed = <<>>
    /\ SameSubDiff(runs[1], h_out.text.history)
\* ------------------------------------------------------------------------
\* Properties of the snapshot discovery
\* ------------------------------------------------------------------------
\* the files of the directory that are snapshots: no diff artifact, and a
\* timestamp in the name that is a date and time
Discoverable ==
  {i \in 1..Len(snapshot_dir) :
     /\ snapshot_dir[i].name.prefix # "diff_"
     /\ snapshot_dir[i].name # [prefix |-> "latest_diff", stamp |-> 0]
     /\ snapshot_dir[i].name.stamp > 0}

\* C27: the files the history goes through are the files of the
\* directory with a timestamp in their name that are no diff artifacts, in
\* the order of the timestamps, and a file of another name makes no run fail
C27_DiscoveryExcludesUnstamped ==
  h_out # NoOutput =>
    /\ h_out.format # "traceback"
    /\ JsonOut =>
         LET H == h_out.text.history
         IN /\ Len(H) = Cardinality(Discoverable)
            /\ {H[i].snapshot : i \in 1..Len(H)} = {snapshot_dir[i].name : i \in Discoverable}
            /\ \A i \in 1..(Len(H) - 1) : H[i].snapshot.stamp <= H[i + 1].snapshot.stamp
\* ------------------------------------------------------------------------
\* Properties of the search for the latest diff
\* ------------------------------------------------------------------------
\* C28: find_latest_diff returns none only when the directory has no
\* diff, and otherwise a diff whose new snapshot is the newest of all diffs
C28_LatestDiffHasNewestSnapshot ==
  diff_path # NotSearched =>
    /\ diff_path = PyNone <=> diffs = {}
    /\ diffs # {} => \A e \in diffs : e[2] <= diff_path[2]
\* ------------------------------------------------------------------------
\* Properties of the location types the differ gives
\* ------------------------------------------------------------------------
LocationTypes == {"went_to_foster", "returned_from_foster", "kennel_move"}

\* C29: no result of the differ has an entry of type other: an entry
\* whose location changed is a move to foster care, a return from it, or a
\* move between kennels
C29_NeverOther ==
  \A r \in 1..Len(runs) : \A i \in 1..Len(runs[r].animals_changed) :
    LET e == runs[r].animals_changed[i]
    IN /\ e.location_change_type # "other"
       /\ e.location_changed => e.location_change_type \in LocationTypes

\* the last branch before other is taken: the foster flags are equal as
\* booleans and the labels differ
C29_Witness ==
  \E r \in 1..Len(runs) : \E i \in 1..Len(runs[r].animals_changed) :
    LET e == runs[r].animals_changed[i]
    IN /\ e.location_changed
       /\ e.location_change_type = "kennel_move"
       /\ e.location_old # e.location_new
\* ------------------------------------------------------------------------
\* Properties of the repeated outcome enrichment
\* ------------------------------------------------------------------------
\* the fields of a removed entry other than the one the enrichment sets
OwnFields(e) == DOMAIN e \ {"outcome_status"}

\* diff d is diff d0 in all but outcome_status and the outcome summary
SameButOutcomes(d0, d) ==
  /\ d.summary = d0.summary
  /\ d.animals_added = d0.animals_added
  /\ d.animals_changed = d0.animals_changed
  /\ d.old_snapshot = d0.old_snapshot
  /\ d.new_snapshot = d0.new_snapshot
  /\ Len(d.animals_removed) = Len(d0.animals_removed)
  /\ \A i \in 1..Len(d0.animals_removed) :
       /\ OwnFields(d.animals_removed[i]) = OwnFields(d0.animals_removed[i])
       /\ \A k \in OwnFields(d0.animals_removed[i]) :
            d.animals_removed[i][k] = d0.animals_removed[i][k]

\* C30: attach_outcome_status applied a second time with the same
\* outcomes table gives the artifact of the first application, and each
\* application leaves summary, animals_added, animals_changed, old_snapshot,
\* new_snapshot and the removed entries, outcome_status aside, as they were
C30_EnrichmentIdempotent ==
  /\ Len(x_out) >= 1 => SameButOutcomes(runs[Len(runs)], x_out[1])
  /\ Len(x_out) = 2 =>
       /\ x_out[2] = x_out[1]
       /\ SameButOutcomes(x_out[1], x_out[2])

\* the second application has been made on a diff with a removed animal
\* that has an outcome and one that has none
C30_Witness ==
  /\ Len(x_out) = 2
  /\ "removal_outcome_summary_simple" \in DOMAIN x_out[2]
  /\ x_out[2].removal_outcome_summary_simple.with_outcome >= 1
  /\ x_out[2].removal_outcome_summary_simple.without_outcome >= 1

====
